---- MODULE Spec2Model ----
(***************************************************************************)
(* The ReAct tool-calling loop of src/agents/react/react.py: ReAct.forward *)
(* with its trajectory dict, the overflow recovery of                      *)
(* _call_with_potential_trajectory_truncation and truncate_trajectory, and *)
(* the final extraction call.  The language model and the tools are the    *)
(* environment: what a model call answers, whether it exceeds the context  *)
(* window, and whether a tool returns or raises are chosen with \E.        *)
(***************************************************************************)
EXTENDS Integers, Sequences, FiniteSets, TLC

\* ---------------------------------------------------------------- bounds
\* Largest value of max_iters and of strict_iters explored (the code's
\* default max_iters is 100).
MaxIters == 3

\* ------------------------------------------------------------- constants
\* Python's None for strict_iters (an int | None; the ints are >= 0 here).
None == -1

\* "Every tool call has 4 keys: thought, tool_name, tool_args, and
\* observation."
KeysPerStep == 4

\* The callables the agent registers (a subset of the five of
\* agents/react/main.py; each is a plain function that returns or raises).
RegisteredTools == {"create_file", "read_file"}

\* What the registered tools return, shown in the trajectory.
ToolReturns == {"True"}

\* Texts of the exceptions a registered tool can raise.
ToolErrors == {"[Errno 2] No such file or directory"}

\* Values of the model's free-text and argument outputs.
Thoughts == {"thought"}
ToolArgs == {"{}"}

\* Values of the extraction call's outputs.
ExtractResults == {"done"}

\* The argument mappings the model gives to finish: none, or one the tool
\* does not declare.
FinishArgs == {"{}", "{'path': 'notes.txt'}"}

\* A tool name the model can answer that no tool bears.
UnregisteredNames == {"delete_everything"}

\* The tools that declare an argument of a BaseModel type.  (ReAct takes any
\* callable; read_file stands for one with such an argument.)
StructuredTools == {"read_file"}

\* An argument mapping whose value for the BaseModel argument does not parse.
UnparsableArgs == "{'query': 'not an object'}"

\* The text of the error of model_validate.
ValidationError == "1 validation error for Query"

\* The usage a response of the model carries when the backend reports usage.
Usages == {[prompt_tokens |-> 3, completion_tokens |-> 2]}

\* The tasks of the task file main_execution loads: a JSON array.
Tasks == <<"task_a", "task_b">>

VARIABLES
    strict_iters,   \* self.strict_iters: None or the fixed number of iterations
    max_iters,      \* self.max_iters
    pc,             \* where forward is: "step_call", "dispatch",
                    \* "extract_call", "returned" or "raised"
    idx,            \* the loop variable of forward
    trajectory,     \* the trajectory dict: a sequence of <<key, value>> in
                    \* insertion order
    pred,           \* the prediction of the last successful step call
    result,         \* what forward returns (<<>> until it returns)
    error,          \* the text of the exception that left forward ("" if none)
    calls,          \* every model call attempt so far, in order
    chosen,         \* the tool name chosen at each iteration so far
    written,        \* every key ever set in the trajectory
    failed,         \* <<i, e>> for every iteration i whose dispatch raised e
    invoked,        \* the iterations at which the function of a tool was
                    \* called
    truncs,         \* number of successful truncations so far
    history,        \* lm.history: one entry per response of the model, kept
                    \* for the life of the process
    usage_on,       \* whether the backend's responses carry usage
    hist0,          \* len(lm.history) when the current run started
    agent_result,   \* the AgentResult the agent's main returned for the
                    \* current run (<<>> until it returns)
    task_no,        \* i of main_execution's loop over the tasks
    n_tasks,        \* len(tasks)
    tool_list,      \* the tools argument of ReAct.__init__: a list of tools,
                    \* each a name and the function it wraps
    tools_dict,     \* self.tools as __init__ builds it from tool_list
    literal,        \* the names of the Literal type of next_tool_name
    mcp_pc,         \* where ReactAgent.run is: "idle", "setup", "unwind",
                    \* "returned", "raised"
    mcp_step,       \* the statement of McpSteps run is at
    mcp_open,       \* the context managers run is inside of, outermost first
    mcp_log,        \* what run has done so far, in order
    dspy_tools,     \* the list dspy_tools of run
    mcp_exc,        \* the exception on its way out of run ("" if none)
    callers,        \* the threads or processes that call
                    \* get_next_experiment_number
    exp_file_exists, \* whether the file next_exp_number exists
    exp_file_text,  \* its content
    exp_lock,       \* the caller that holds the flock on it ("none" if free)
    exp_pc,         \* where each caller is in get_next_experiment_number
    current_num,    \* current_num of each caller
    returned_nums,  \* the numbers each caller has been returned, in order
    exp_start,      \* the number the file stood for at first
    main_pc,        \* where main_execution is: "idle", "tasks" (in the loop
                    \* over the tasks) or "written" (summary.json written)
    main_n,         \* len(tasks) of the task file main_execution loaded
    main_i,         \* i of the loop over the tasks (the task to process
                    \* next)
    main_result,    \* result of the last call of agent_main (<<>> if none)
    task_logs,      \* the list task_logs
    input_tokens,   \* the running total input_tokens
    output_tokens,  \* the running total output_tokens
    total_cost,     \* the running total total_cost
    summary,        \* what is written to summary.json (<<>> until then)
    task_outcomes,  \* for every task processed so far, in order: whether
                    \* its processing raised and what agent_main returned
    fs_dirs,        \* the directories that exist at or below env, each as
                    \* its path from env (<<>> is env itself)
    fs_files,       \* the regular files below env: path |-> content
    fs_op,          \* the last action called on env: its name and filepath
    fs_ret,         \* what that action returned, or the exception it raised
    fs_prev,        \* the directories and files just before that action
    ai_calls,       \* the calls of ai so far: the contents sent, in order
    cli_pc,         \* where the tag command is: "idle", "run_task",
                    \* "environment", "agent", "evaluation" or "over"
    cli_args,       \* the parsed arguments: --eval and --env
    next_exp,       \* the number get_next_experiment_number returns next
    envs,           \* the directories below envs/
    evals,          \* the eval.py files below evals/: directory |-> script
    task_config,    \* the task written to the task file
    copied,         \* where run_task copied the script of --eval to
    looked_up,      \* the eval.py main_execution looked up ("" if none)
    eval_run,       \* the script main_execution ran as the task-specific
                    \* evaluation ("" if none)
    cli_outcome     \* how the processing of the task ended

\* The state of the process around forward.
procVars == <<history, usage_on, hist0, agent_result, task_no, n_tasks>>

\* The argument and the products of ReAct.__init__.
regVars == <<tool_list, tools_dict, literal>>

\* The state of ReactAgent.run of the agent with the two tool servers.
mcpVars == <<mcp_pc, mcp_step, mcp_open, mcp_log, dspy_tools, mcp_exc>>

\* The counter file of get_next_experiment_number and its callers.
cntVars == <<callers, exp_file_exists, exp_file_text, exp_lock, exp_pc,
             current_num, returned_nums, exp_start>>

\* The state of main_execution.
mainVars == <<main_pc, main_n, main_i, main_result, task_logs, input_tokens,
              output_tokens, total_cost, summary, task_outcomes>>

\* The env folder the file actions work on, and the calls of ai.
fsVars == <<fs_dirs, fs_files, fs_op, fs_ret, fs_prev, ai_calls>>

\* The tag command: run_task and the main_execution it starts.
cliVars == <<cli_pc, cli_args, next_exp, envs, evals, task_config, copied,
             looked_up, eval_run, cli_outcome>>

\* The state of the helpers, which the agents leave alone.
extraVars == <<cntVars, mainVars, fsVars, cliVars>>

\* What forward and the agent's main leave alone.
sideVars == <<regVars, mcpVars, extraVars>>

vars == <<strict_iters, max_iters, pc, idx, trajectory, pred, result, error,
          calls, chosen, written, failed, invoked, truncs, procVars,
          sideVars>>

\* ------------------------------------------------------- the trajectory
\* f"thought_{idx}" and its siblings.
Key(kind, i) == kind \o "_" \o ToString(i)

Kinds == <<"thought", "tool_name", "tool_args", "observation">>

\* list(trajectory.keys())
Keys(traj) == [n \in 1..Len(traj) |-> traj[n][1]]

KeySet(traj) == {traj[n][1] : n \in 1..Len(traj)}

\* trajectory[key] = value: an existing key keeps its place, a new key goes
\* to the end.
DictSet(traj, key, value) ==
    IF key \in KeySet(traj)
    THEN [n \in 1..Len(traj) |->
             IF traj[n][1] = key THEN <<key, value>> ELSE traj[n]]
    ELSE Append(traj, <<key, value>>)

\* trajectory[key]
DictGet(traj, key) ==
    LET n == CHOOSE m \in 1..Len(traj) : traj[m][1] = key IN traj[n][2]

\* trajectory.pop(key)
DictPop(traj, key) ==
    SelectSeq(traj, LAMBDA kv : kv[1] # key)

\* _format_trajectory: the fields of the dict one after the other, each
\* under a header with its key.
RECURSIVE FormatTrajectory(_)
FormatTrajectory(traj) ==
    IF traj = <<>> THEN ""
    ELSE "[[ ## " \o traj[1][1] \o " ## ]]\n" \o traj[1][2] \o "\n\n"
         \o FormatTrajectory(Tail(traj))

\* truncate_trajectory raises the ValueError: len(keys) < 4.
TooShort(traj) == Len(Keys(traj)) < KeysPerStep

\* truncate_trajectory when it does not raise: pops keys[:4].
RECURSIVE PopAll(_, _)
PopAll(traj, ks) ==
    IF ks = <<>> THEN traj ELSE PopAll(DictPop(traj, Head(ks)), Tail(ks))

\* A truncation that pops nothing.
truncate_trajectory_Nothing(traj) == traj

\* A truncation that pops the newest keys, keys[-4:].
truncate_trajectory_Newest(traj) ==
    PopAll(traj, SubSeq(Keys(traj), Len(traj) - KeysPerStep + 1, Len(traj)))

\* A truncation that pops the second oldest step when there is one.
truncate_trajectory_Second(traj) ==
    IF Len(traj) >= 2 * KeysPerStep
    THEN PopAll(traj, SubSeq(Keys(traj), KeysPerStep + 1, 2 * KeysPerStep))
    ELSE PopAll(traj, SubSeq(Keys(traj), 1, KeysPerStep))

truncate_trajectory(traj) ==
    PopAll(traj, SubSeq(Keys(traj), 1, KeysPerStep))

TruncationError ==
    "The trajectory is too long so your prompt exceeded the context window, but the trajectory cannot be truncated because it only has one tool call."

\* ------------------------------------------------------------ the tools
\* self.tools: the registered tools, plus finish unless strict_iters is set.
tools(strict) ==
    IF strict = None THEN RegisteredTools \cup {"finish"} ELSE RegisteredTools

\* What the finish tool returns.
FinishReturn == "Completed."

\* The names the model can answer for next_tool_name before the answer is
\* parsed.
RawNames(strict) == tools(strict) \cup UnregisteredNames

\* A signature that puts no constraint on next_tool_name.
NextToolNames_Unconstrained(strict) == RawNames(strict)

\* The values the type of next_tool_name admits: Literal[tuple(tools.keys())].
NextToolNames(strict) == tools(strict)

\* The text of the exception of a step call whose answer names no value of
\* the Literal type.
RejectedName(name) == "next_tool_name: '" \o name \o "' is not one of the tools"

\* The argument mappings the model gives to a tool.
ArgsOf(name) ==
    IF name = "finish" THEN FinishArgs
    ELSE IF name \in StructuredTools THEN ToolArgs \cup {UnparsableArgs}
         ELSE ToolArgs

\* The text of the KeyError of self.tools[name].
LookupError(name) == "'" \o name \o "'"

\* A dispatch that passes every argument on as the model gave it.
PreInvokeErrors_NoValidation(strict, name, args) ==
    IF name \notin tools(strict) THEN {LookupError(name)} ELSE {}

\* The exceptions the try block raises before the function of the tool is
\* called: the KeyError of the lookup for a name outside self.tools, the
\* error of arg_type.model_validate(v) for an argument of a BaseModel type
\* that does not parse.
PreInvokeErrors(strict, name, args) ==
    IF name \notin tools(strict) THEN {LookupError(name)}
    ELSE IF name \in StructuredTools /\ args = UnparsableArgs
         THEN {ValidationError}
         ELSE {}

\* A finish tool that takes no argument it does not declare.
DispatchErrors_FinishChecksArgs(strict, name, args) ==
    IF PreInvokeErrors(strict, name, args) # {}
    THEN PreInvokeErrors(strict, name, args)
    ELSE IF name = "finish"
         THEN (IF args = "{}" THEN {}
               ELSE {"finish() got an unexpected keyword argument"})
         ELSE ToolErrors

\* The exceptions the try block of the dispatch can raise for a tool name and
\* its arguments: those raised before the call, or else those of the call:
\* nothing for finish (lambda **kwargs: "Completed."), the errors of the
\* function for a registered tool.
DispatchErrors(strict, name, args) ==
    IF PreInvokeErrors(strict, name, args) # {}
    THEN PreInvokeErrors(strict, name, args)
    ELSE IF name = "finish" THEN {}
         ELSE ToolErrors

\* What the call of a tool of self.tools returns, when the try block reaches
\* the call.
DispatchValues(strict, name, args) ==
    IF PreInvokeErrors(strict, name, args) # {} THEN {}
    ELSE IF name = "finish" THEN {FinishReturn}
         ELSE ToolReturns

\* ------------------------------------------------------------ __init__
\* The bound on the number of tools passed to __init__.
MaxTools == 2

\* The tools a caller can pass: two of them are different functions with the
\* same name.
ToolCandidates ==
    {[name |-> "create_file", func |-> "ActionsReAct.create_file"],
     [name |-> "read_file", func |-> "ActionsReAct.read_file"],
     [name |-> "read_file", func |-> "notes.read_file"]}

\* The lists of at most n elements of S.
ListsUpTo(S, n) == UNION {[1..k -> S] : k \in 0..n}

\* {tool.name: tool for tool in tools}, from the dict acc on.
RECURSIVE ToolsByName(_, _)
ToolsByName(list, acc) ==
    IF list = <<>> THEN acc
    ELSE ToolsByName(Tail(list),
                     DictSet(acc, Head(list).name, Head(list).func))

\* A constructor that adds finish whatever strict_iters is.
WithFinish_Always(dict, strict) == DictSet(dict, "finish", "lambda **kwargs")

\* if self.strict_iters is None: tools["finish"] = Tool(func=lambda ...)
WithFinish(dict, strict) ==
    IF strict = None THEN DictSet(dict, "finish", "lambda **kwargs") ELSE dict

\* Literal[tuple(tools.keys())]
LiteralOf(dict) == Keys(dict)

\* The names of a list of tools.
NamesOf(list) == {list[n].name : n \in 1..Len(list)}

\* A dispatch that records the bare exception text.
FailedObservation_Unmarked(e) == e

\* The observation recorded when the dispatch raises.
FailedObservation(e) == "Failed to execute: " \o e

\* ------------------------------------------------------------ the helpers at rest
\* Nobody calls get_next_experiment_number.
CounterIdle ==
    /\ callers = {}
    /\ exp_file_exists = FALSE
    /\ exp_file_text = ""
    /\ exp_lock = "none"
    /\ exp_pc = <<>>
    /\ current_num = <<>>
    /\ returned_nums = <<>>
    /\ exp_start = 0

MainIdle ==
    /\ main_pc = "idle"
    /\ main_n = 0
    /\ main_i = 0
    /\ main_result = <<>>
    /\ task_logs = <<>>
    /\ input_tokens = 0
    /\ output_tokens = 0
    /\ total_cost = 0
    /\ summary = <<>>
    /\ task_outcomes = <<>>

FsIdle ==
    /\ fs_dirs = {}
    /\ fs_files = <<>>
    /\ fs_op = <<>>
    /\ fs_ret = ""
    /\ fs_prev = <<>>
    /\ ai_calls = <<>>

CliIdle ==
    /\ cli_pc = "idle"
    /\ cli_args = <<>>
    /\ next_exp = 0
    /\ envs = {}
    /\ evals = <<>>
    /\ task_config = <<>>
    /\ copied = <<>>
    /\ looked_up = ""
    /\ eval_run = ""
    /\ cli_outcome = ""

ExtraIdle == CounterIdle /\ MainIdle /\ FsIdle /\ CliIdle

\* ------------------------------------------------------------ the loop
\* A loop bound that always takes max_iters.
num_iters_MaxOnly(strict, maxi) == maxi

\* A loop that runs one iteration past max_iters.
num_iters_PastCap(strict, maxi) == IF strict # None THEN strict ELSE maxi + 1

\* num_iters = self.strict_iters if self.strict_iters is not None else
\* self.max_iters
num_iters(strict, maxi) == IF strict # None THEN strict ELSE maxi

\* A loop without the break.
ShouldBreak_Never(strict, name) == FALSE

\* if self.strict_iters is None and pred.next_tool_name == "finish": break
ShouldBreak(strict, name) == strict = None /\ name = "finish"

\* A forward that returns at the end of the loop without the extraction call.
LoopPc_NoExtraction(i, strict, maxi) ==
    IF i < num_iters(strict, maxi) THEN "step_call" ELSE "returned"

\* Where forward goes when the for statement is entered with the next value
\* i of range(num_iters): into the body, or past the loop.
LoopPc(i, strict, maxi) ==
    IF i < num_iters(strict, maxi) THEN "step_call" ELSE "extract_call"

\* ------------------------------------------------------------ the usage
\* x.get('usage', {}).get('prompt_tokens', 0) and its sibling.
PromptTokens(x) == IF x.has_usage THEN x.usage.prompt_tokens ELSE 0

CompletionTokens(x) == IF x.has_usage THEN x.usage.completion_tokens ELSE 0

\* sum([... for x in lm.history])
RECURSIVE SumPrompt(_)
SumPrompt(hist) ==
    IF hist = <<>> THEN 0 ELSE PromptTokens(Head(hist)) + SumPrompt(Tail(hist))

RECURSIVE SumCompletion(_)
SumCompletion(hist) ==
    IF hist = <<>> THEN 0
    ELSE CompletionTokens(Head(hist)) + SumCompletion(Tail(hist))

\* The entries a response can leave in lm.history: with the usage of the
\* response, or with an empty usage when the backend reports none.
HistoryEntries(on) ==
    IF on THEN {[has_usage |-> TRUE, usage |-> u] : u \in Usages}
    ELSE {[has_usage |-> FALSE, usage |-> <<>>]}

CallRecord(module, outcome) ==
    [module |-> module, idx |-> idx, keys |-> Len(trajectory),
     trajectory |-> FormatTrajectory(trajectory), outcome |-> outcome]

Init ==
    /\ strict_iters \in {None} \cup (0..MaxIters)
    /\ max_iters \in 0..MaxIters
    /\ idx = 0
    /\ pc = LoopPc(0, strict_iters, max_iters)
    /\ trajectory = <<>>
    /\ pred = <<>>
    /\ result = <<>>
    /\ error = ""
    /\ calls = <<>>
    /\ chosen = <<>>
    /\ written = {}
    /\ failed = {}
    /\ invoked = {}
    /\ truncs = 0
    /\ history = <<>>
    /\ usage_on = TRUE
    /\ hist0 = 0
    /\ agent_result = <<>>
    /\ task_no = 1
    /\ n_tasks = 1
    /\ tool_list = <<>>
    /\ tools_dict = <<>>
    /\ literal = <<>>
    /\ mcp_pc = "idle"
    /\ mcp_step = 0
    /\ mcp_open = <<>>
    /\ mcp_log = <<>>
    /\ dspy_tools = <<>>
    /\ mcp_exc = ""
    /\ ExtraIdle

\* The step call returns a prediction; its three fields are recorded.
StepCallReturns ==
    /\ pc = "step_call"
    /\ \E thought \in Thoughts,
          name \in RawNames(strict_iters) \cap NextToolNames(strict_iters) :
       \E args \in ArgsOf(name) :
          /\ pred' = [next_thought |-> thought, next_tool_name |-> name,
                      next_tool_args |-> args]
          /\ trajectory' =
                DictSet(DictSet(DictSet(trajectory,
                    Key("thought", idx), thought),
                    Key("tool_name", idx), name),
                    Key("tool_args", idx), args)
          /\ chosen' = Append(chosen, name)
    /\ written' = written \cup
          {Key("thought", idx), Key("tool_name", idx), Key("tool_args", idx)}
    /\ calls' = Append(calls, CallRecord("react", "ok"))
    /\ \E entry \in HistoryEntries(usage_on) : history' = Append(history, entry)
    /\ pc' = "dispatch"
    /\ UNCHANGED <<strict_iters, max_iters, idx, result, error, failed, invoked, truncs>>
    /\ UNCHANGED <<usage_on, hist0, agent_result, task_no, n_tasks>>
    /\ UNCHANGED sideVars

\* The model answers a tool name outside the Literal type of next_tool_name:
\* the step call raises when the answer is parsed, and the exception, which is
\* no ContextWindowExceededError, leaves forward.  Nothing is recorded.
StepCallRejected ==
    /\ pc = "step_call"
    /\ \E name \in RawNames(strict_iters) \ NextToolNames(strict_iters) :
          error' = RejectedName(name)
    /\ calls' = Append(calls, CallRecord("react", "rejected"))
    /\ \E entry \in HistoryEntries(usage_on) : history' = Append(history, entry)
    /\ pc' = "raised"
    /\ UNCHANGED <<strict_iters, max_iters, idx, trajectory, pred, result,
                   chosen, written, failed, invoked, truncs>>
    /\ UNCHANGED <<usage_on, hist0, agent_result, task_no, n_tasks>>
    /\ UNCHANGED sideVars

\* The exceptions of a model call other than ContextWindowExceededError and
\* the rejected tool name: the call never got an answer.
OtherErrors == {"RateLimitError"}

\* The module of the call forward is at.
ModuleAt(p) == IF p = "step_call" THEN "react" ELSE "extract"

\* An except clause that takes every exception of the call for an overflow:
\* it truncates and retries.
CallFails_Retried ==
    /\ pc \in {"step_call", "extract_call"}
    /\ calls' = Append(calls, CallRecord(ModuleAt(pc), "failed"))
    /\ IF TooShort(trajectory)
       THEN /\ pc' = "raised"
            /\ error' = TruncationError
            /\ UNCHANGED <<trajectory, truncs>>
       ELSE /\ trajectory' = truncate_trajectory(trajectory)
            /\ truncs' = truncs + 1
            /\ UNCHANGED <<pc, error>>
    /\ UNCHANGED <<strict_iters, max_iters, idx, pred, result, chosen, written,
                   failed, invoked, procVars>>
    /\ UNCHANGED sideVars

\* A call attempt (step or extraction) raises an exception that is no
\* ContextWindowExceededError: the except clause of line 149 does not take
\* it, and it leaves forward.
CallFails ==
    /\ pc \in {"step_call", "extract_call"}
    /\ \E e \in OtherErrors : error' = e
    /\ calls' = Append(calls, CallRecord(ModuleAt(pc), "failed"))
    /\ pc' = "raised"
    /\ UNCHANGED <<strict_iters, max_iters, idx, trajectory, pred, result,
                   chosen, written, failed, invoked, truncs, procVars>>
    /\ UNCHANGED sideVars

\* The iterations at which the function of a tool has been called, after a
\* try block that raised e at the current one.
Invoked(e) ==
    IF e \in PreInvokeErrors(strict_iters, pred.next_tool_name,
                             pred.next_tool_args)
    THEN invoked ELSE invoked \cup {idx}

\* The end of the loop body once the observation is recorded: the break of
\* line 117, or the next value of range(num_iters).
EndIteration(obs) ==
    /\ trajectory' = DictSet(trajectory, Key("observation", idx), obs)
    /\ written' = written \cup {Key("observation", idx)}
    /\ IF ShouldBreak(strict_iters, pred.next_tool_name)
       THEN /\ pc' = "extract_call"
            /\ idx' = idx
       ELSE /\ pc' = LoopPc(idx + 1, strict_iters, max_iters)
            /\ idx' = IF idx + 1 < num_iters(strict_iters, max_iters)
                      THEN idx + 1 ELSE idx
    /\ UNCHANGED <<strict_iters, max_iters, pred, result, error, calls,
                   chosen, truncs, procVars>>
    /\ UNCHANGED sideVars

\* The tool returns; its value is the observation.
DispatchReturns ==
    /\ pc = "dispatch"
    /\ \E obs \in DispatchValues(strict_iters, pred.next_tool_name,
                                 pred.next_tool_args) :
          EndIteration(obs)
    /\ invoked' = invoked \cup {idx}
    /\ UNCHANGED failed

\* An except clause that records nothing.
DispatchRaises_Unrecorded ==
    /\ pc = "dispatch"
    /\ \E e \in DispatchErrors(strict_iters, pred.next_tool_name,
                              pred.next_tool_args) :
          /\ failed' = failed \cup {<<idx, e>>}
          /\ invoked' = Invoked(e)
    /\ pc' = LoopPc(idx + 1, strict_iters, max_iters)
    /\ idx' = IF idx + 1 < num_iters(strict_iters, max_iters)
              THEN idx + 1 ELSE idx
    /\ UNCHANGED <<strict_iters, max_iters, trajectory, pred, result, error,
                   calls, chosen, written, truncs, procVars>>
    /\ UNCHANGED sideVars

\* The try block raises; the except clause records the failure as the
\* observation.
DispatchRaises ==
    /\ pc = "dispatch"
    /\ \E e \in DispatchErrors(strict_iters, pred.next_tool_name,
                              pred.next_tool_args) :
          /\ EndIteration(FailedObservation(e))
          /\ failed' = failed \cup {<<idx, e>>}
          /\ invoked' = Invoked(e)

\* A call attempt (step or extraction) raises ContextWindowExceededError:
\* truncate_trajectory pops the oldest keys and the call is retried, or
\* raises the ValueError, which leaves forward.
CallOverflows ==
    /\ pc \in {"step_call", "extract_call"}
    /\ calls' = Append(calls,
          CallRecord(IF pc = "step_call" THEN "react" ELSE "extract", "overflow"))
    /\ IF TooShort(trajectory)
       THEN /\ pc' = "raised"
            /\ error' = TruncationError
            /\ UNCHANGED <<trajectory, truncs>>
       ELSE /\ trajectory' = truncate_trajectory(trajectory)
            /\ truncs' = truncs + 1
            /\ UNCHANGED <<pc, error>>
    /\ UNCHANGED <<strict_iters, max_iters, idx, pred, result, chosen, written,
                   failed, invoked, procVars>>
    /\ UNCHANGED sideVars

\* input_tokens and output_tokens of forward's result: the sums over
\* lm.history.
ReportedInput(hist) == SumPrompt(hist)

ReportedOutput(hist) == SumCompletion(hist)

\* The extraction call returns; forward builds its result and returns.  The
\* JSON round trip of the result keeps the keys and their order (the values
\* here are text already).
ExtractReturns ==
    /\ pc = "extract_call"
    /\ calls' = Append(calls, CallRecord("extract", "ok"))
    /\ \E entry \in HistoryEntries(usage_on) : history' = Append(history, entry)
    /\ \E completed \in BOOLEAN, res \in ExtractResults :
          result' = [trajectory |-> trajectory, completed |-> completed,
                     result |-> res, reasoning |-> "reasoning",
                     input_tokens |-> ReportedInput(history'),
                     output_tokens |-> ReportedOutput(history'),
                     total_tokens |-> ReportedInput(history')
                                        + ReportedOutput(history')]
    /\ pc' = "returned"
    /\ UNCHANGED <<strict_iters, max_iters, idx, trajectory, pred, error,
                   chosen, written, failed, invoked, truncs>>
    /\ UNCHANGED <<usage_on, hist0, agent_result, task_no, n_tasks>>
    /\ UNCHANGED sideVars

\* input_tokens if input_tokens else None
OrNone(n) == IF n # 0 THEN n ELSE None

\* The result of the agent's main when forward returned: the token counts of
\* forward's result, None for a count of 0; the result has no cost.
AgentResultOf(res) ==
    [completed |-> res.completed, result |-> res.result,
     reasoning |-> res.reasoning,
     input_tokens |-> OrNone(res.input_tokens),
     output_tokens |-> OrNone(res.output_tokens),
     cost |-> None]

\* The result of the agent's main when an exception reached its except
\* clause.
AgentErrorResult(e) ==
    [completed |-> FALSE, result |-> "Error: " \o e,
     reasoning |-> "Error in agent",
     input_tokens |-> 0, output_tokens |-> 0, cost |-> None]

Catches_Nothing(e) == FALSE

\* Which exceptions the except clause of the agent's main catches:
\* except Exception.
Catches(e) == TRUE

\* forward returned its result to the agent's main, which returns the
\* AgentResult.
AgentReturns ==
    /\ pc = "returned"
    /\ agent_result' = AgentResultOf(result)
    /\ pc' = "done"
    /\ UNCHANGED <<strict_iters, max_iters, idx, trajectory, pred, result,
                   error, calls, chosen, written, failed, invoked, truncs>>
    /\ UNCHANGED <<history, usage_on, hist0, task_no, n_tasks>>
    /\ UNCHANGED sideVars

\* An exception left forward; the agent's main catches it and returns the
\* error result.
AgentCatches ==
    /\ pc = "raised"
    /\ IF Catches(error)
       THEN /\ agent_result' = AgentErrorResult(error)
            /\ pc' = "done"
       ELSE /\ agent_result' = agent_result
            /\ pc' = "main_raised"
    /\ UNCHANGED <<strict_iters, max_iters, idx, trajectory, pred, result,
                   error, calls, chosen, written, failed, invoked, truncs>>
    /\ UNCHANGED <<history, usage_on, hist0, task_no, n_tasks>>
    /\ UNCHANGED sideVars

\* main_execution goes to the next task of the file: a new ReAct, a new
\* forward, the same lm.
NextTask ==
    /\ pc = "done"
    /\ task_no < n_tasks
    /\ task_no' = task_no + 1
    /\ hist0' = Len(history)
    /\ agent_result' = <<>>
    /\ idx' = 0
    /\ pc' = LoopPc(0, strict_iters, max_iters)
    /\ trajectory' = <<>>
    /\ pred' = <<>>
    /\ result' = <<>>
    /\ error' = ""
    /\ calls' = <<>>
    /\ chosen' = <<>>
    /\ written' = {}
    /\ failed' = {}
    /\ invoked' = {}
    /\ truncs' = 0
    /\ UNCHANGED <<strict_iters, max_iters, history, usage_on, n_tasks>>
    /\ UNCHANGED sideVars

Next ==
    \/ StepCallReturns
    \/ StepCallRejected
    \/ DispatchReturns
    \/ DispatchRaises
    \/ CallOverflows
    \/ CallFails
    \/ ExtractReturns
    \/ AgentReturns
    \/ AgentCatches

Spec == Init /\ [][Next]_vars

\* ReAct.__init__ builds self.tools and the Literal type of next_tool_name
\* from its tools argument.  Nothing in it raises on the names of the tools.
Construct ==
    /\ pc = "new"
    /\ tools_dict' = WithFinish(ToolsByName(tool_list, <<>>), strict_iters)
    /\ literal' = LiteralOf(tools_dict')
    /\ pc' = "built"
    /\ UNCHANGED <<strict_iters, max_iters, idx, trajectory, pred, result,
                   error, calls, chosen, written, failed, invoked, truncs, procVars,
                   tool_list, mcpVars, extraVars>>

\* The construction of a ReAct from any list of tools.
InitRegistry ==
    /\ strict_iters \in {None} \cup 0..MaxIters
    /\ max_iters = MaxIters
    /\ tool_list \in ListsUpTo(ToolCandidates, MaxTools)
    /\ tools_dict = <<>>
    /\ literal = <<>>
    /\ pc = "new"
    /\ idx = 0
    /\ trajectory = <<>>
    /\ pred = <<>>
    /\ result = <<>>
    /\ error = ""
    /\ calls = <<>>
    /\ chosen = <<>>
    /\ written = {}
    /\ failed = {}
    /\ invoked = {}
    /\ truncs = 0
    /\ history = <<>>
    /\ usage_on = TRUE
    /\ hist0 = 0
    /\ agent_result = <<>>
    /\ task_no = 1
    /\ n_tasks = 1
    /\ mcp_pc = "idle"
    /\ mcp_step = 0
    /\ mcp_open = <<>>
    /\ mcp_log = <<>>
    /\ dspy_tools = <<>>
    /\ mcp_exc = ""
    /\ ExtraIdle

NextRegistry == Construct

SpecRegistry == InitRegistry /\ [][NextRegistry]_vars

\* ------------------------------------------------------------ the two tool servers
\* The statements of ReactAgent.run in order: the four async with of the
\* filesystem and of the memory server, each session initialized and its
\* tools listed, then the ReAct built and awaited inside all four.
McpSteps ==
    <<[op |-> "enter", cm |-> "stdio_0"],
      [op |-> "enter", cm |-> "session_0"],
      [op |-> "initialize", cm |-> "session_0"],
      [op |-> "list_tools", cm |-> "session_0"],
      [op |-> "enter", cm |-> "stdio_1"],
      [op |-> "enter", cm |-> "session_1"],
      [op |-> "initialize", cm |-> "session_1"],
      [op |-> "list_tools", cm |-> "session_1"],
      [op |-> "react", cm |-> "loop"]>>

\* What list_tools of a session can return.
ListedTools(cm) ==
    IF cm = "session_0"
    THEN {<<>>, <<"read_file">>, <<"read_file", "write_file">>}
    ELSE {<<>>, <<"create_entities">>, <<"create_entities", "read_graph">>}

\* The text of the exception of a statement of run that fails.
McpError(step) == step.op \o " " \o step.cm \o " failed"

\* An exit of the scopes that starts from the outermost.
Innermost_Oldest(open) == 1

\* The context manager an exception or a return leaves first: the one entered
\* last.
Innermost(open) == Len(open)

\* Scopes that are exited on a return only.
Unwinds_OnReturnOnly(exc) == exc = ""

\* async with calls __aexit__ however its body is left.
Unwinds(exc) == TRUE

\* The statement after mcp_step.
McpAdvance ==
    /\ mcp_step' = mcp_step + 1
    /\ mcp_pc' = "setup"

McpLoopVarsUnchanged ==
    UNCHANGED <<strict_iters, max_iters, pc, idx, trajectory, pred, result,
                error, calls, chosen, written, failed, invoked, truncs, procVars,
                regVars, extraVars>>

\* async with stdio_client(...) / ClientSession(...): __aenter__ returns.
EnterScope ==
    /\ mcp_pc = "setup"
    /\ McpSteps[mcp_step].op = "enter"
    /\ mcp_open' = Append(mcp_open, McpSteps[mcp_step].cm)
    /\ mcp_log' = Append(mcp_log, McpSteps[mcp_step])
    /\ McpAdvance
    /\ UNCHANGED <<dspy_tools, mcp_exc>>
    /\ McpLoopVarsUnchanged

\* await session.initialize() returns.
Initialize ==
    /\ mcp_pc = "setup"
    /\ McpSteps[mcp_step].op = "initialize"
    /\ mcp_log' = Append(mcp_log, McpSteps[mcp_step])
    /\ McpAdvance
    /\ UNCHANGED <<mcp_open, dspy_tools, mcp_exc>>
    /\ McpLoopVarsUnchanged

\* tools = await session.list_tools(); every tool is appended to dspy_tools.
ListTools ==
    /\ mcp_pc = "setup"
    /\ McpSteps[mcp_step].op = "list_tools"
    /\ \E listed \in ListedTools(McpSteps[mcp_step].cm) :
          dspy_tools' = dspy_tools \o listed
    /\ mcp_log' = Append(mcp_log, McpSteps[mcp_step])
    /\ McpAdvance
    /\ UNCHANGED <<mcp_open, mcp_exc>>
    /\ McpLoopVarsUnchanged

\* react = ReAct(...); result = await react.acall(task=task); return result.
\* The return leaves the four scopes.
RunReact ==
    /\ mcp_pc = "setup"
    /\ McpSteps[mcp_step].op = "react"
    /\ mcp_log' = Append(mcp_log, McpSteps[mcp_step])
    /\ mcp_pc' = "unwind"
    /\ UNCHANGED <<mcp_step, mcp_open, dspy_tools, mcp_exc>>
    /\ McpLoopVarsUnchanged

\* The statement run is at raises: an __aenter__, initialize, list_tools, or
\* the ReAct in its constructor or in the middle of its loop.
StepRaises ==
    /\ mcp_pc = "setup"
    /\ mcp_exc' = McpError(McpSteps[mcp_step])
    /\ mcp_log' = IF McpSteps[mcp_step].op = "react"
                  THEN Append(mcp_log, McpSteps[mcp_step]) ELSE mcp_log
    /\ mcp_pc' = "unwind"
    /\ UNCHANGED <<mcp_step, mcp_open, dspy_tools>>
    /\ McpLoopVarsUnchanged

\* The return or the exception leaves the innermost async with: __aexit__.
ExitScope ==
    /\ mcp_pc = "unwind"
    /\ mcp_open # <<>>
    /\ Unwinds(mcp_exc)
    /\ LET n == Innermost(mcp_open) IN
          /\ mcp_log' = Append(mcp_log, [op |-> "exit", cm |-> mcp_open[n]])
          /\ mcp_open' = [m \in 1..(Len(mcp_open) - 1) |->
                             IF m < n THEN mcp_open[m] ELSE mcp_open[m + 1]]
    /\ UNCHANGED <<mcp_pc, mcp_step, dspy_tools, mcp_exc>>
    /\ McpLoopVarsUnchanged

\* run is left: with its result, or with the exception.
LeaveRun ==
    /\ mcp_pc = "unwind"
    /\ mcp_open = <<>> \/ ~Unwinds(mcp_exc)
    /\ mcp_pc' = IF mcp_exc = "" THEN "returned" ELSE "raised"
    /\ UNCHANGED <<mcp_step, mcp_open, mcp_log, dspy_tools, mcp_exc>>
    /\ McpLoopVarsUnchanged

\* ReactAgent.run is called: dspy_tools = [actions.run_terminal_command].
InitMcp ==
    /\ mcp_pc = "setup"
    /\ mcp_step = 1
    /\ mcp_open = <<>>
    /\ mcp_log = <<>>
    /\ dspy_tools = <<"run_terminal_command">>
    /\ mcp_exc = ""
    /\ ExtraIdle
    /\ strict_iters = None
    /\ max_iters = MaxIters
    /\ tool_list = <<>>
    /\ tools_dict = <<>>
    /\ literal = <<>>
    /\ pc = "mcp"
    /\ idx = 0
    /\ trajectory = <<>>
    /\ pred = <<>>
    /\ result = <<>>
    /\ error = ""
    /\ calls = <<>>
    /\ chosen = <<>>
    /\ written = {}
    /\ failed = {}
    /\ invoked = {}
    /\ truncs = 0
    /\ history = <<>>
    /\ usage_on = TRUE
    /\ hist0 = 0
    /\ agent_result = <<>>
    /\ task_no = 1
    /\ n_tasks = 1

NextMcp ==
    \/ EnterScope
    \/ Initialize
    \/ ListTools
    \/ RunReact
    \/ StepRaises
    \/ ExitScope
    \/ LeaveRun

SpecMcp == InitMcp /\ [][NextMcp]_vars

\* The process of main_execution with the react agent, which builds its
\* ReAct with the defaults (strict_iters None, max_iters at the bound of the
\* model) for every task of the file.
InitRuns ==
    /\ strict_iters = None
    /\ max_iters = MaxIters
    /\ idx = 0
    /\ pc = LoopPc(0, strict_iters, max_iters)
    /\ trajectory = <<>>
    /\ pred = <<>>
    /\ result = <<>>
    /\ error = ""
    /\ calls = <<>>
    /\ chosen = <<>>
    /\ written = {}
    /\ failed = {}
    /\ invoked = {}
    /\ truncs = 0
    /\ history = <<>>
    /\ usage_on \in BOOLEAN
    /\ hist0 = 0
    /\ agent_result = <<>>
    /\ task_no = 1
    /\ n_tasks = Len(Tasks)
    /\ tool_list = <<>>
    /\ tools_dict = <<>>
    /\ literal = <<>>
    /\ mcp_pc = "idle"
    /\ mcp_step = 0
    /\ mcp_open = <<>>
    /\ mcp_log = <<>>
    /\ dspy_tools = <<>>
    /\ mcp_exc = ""
    /\ ExtraIdle

NextRuns ==
    \/ StepCallReturns
    \/ StepCallRejected
    \/ DispatchReturns
    \/ DispatchRaises
    \/ CallOverflows
    \/ ExtractReturns
    \/ AgentReturns
    \/ AgentCatches
    \/ NextTask

SpecRuns == InitRuns /\ [][NextRuns]_vars

\* ------------------------------------------------------------ the experiment counter
\* The bound on the calls of one caller.
MaxCalls == 2

\* The threads or processes that can call get_next_experiment_number.
AllCallers == {"p", "q"}

\* The numbers the counter file can hold at first.
StoredAtFirst == {1, 2}

\* The highest number the file can come to hold.
HighestNumber == 2 + Cardinality(AllCallers) * MaxCalls

\* int(text): the number whose decimal writing the text is.
IntOf(text) == CHOOSE n \in 0..HighestNumber : ToString(n) = text

\* int(f.read().strip() or "1")
ReadNumber(text) == IF text = "" THEN IntOf("1") ELSE IntOf(text)

\* A function that returns the incremented number.
ReturnedNumber_Incremented(num) == num + 1

\* return current_num
ReturnedNumber(num) == num

\* The state of the agents, which get_next_experiment_number leaves alone.
agentVars == <<strict_iters, max_iters, pc, idx, trajectory, pred, result,
               error, calls, chosen, written, failed, invoked, truncs,
               procVars, regVars, mcpVars>>

\* A caller enters get_next_experiment_number.
CallCounter(c) ==
    /\ exp_pc[c] = "idle"
    /\ Len(returned_nums[c]) < MaxCalls
    /\ exp_pc' = [exp_pc EXCEPT ![c] = "exists"]
    /\ UNCHANGED <<callers, exp_file_exists, exp_file_text, exp_lock,
                   current_num, returned_nums, exp_start>>
    /\ UNCHANGED <<agentVars, mainVars, fsVars, cliVars>>

\* if not exp_file.exists():
CheckExists(c) ==
    /\ exp_pc[c] = "exists"
    /\ exp_pc' = [exp_pc EXCEPT ![c] = IF exp_file_exists THEN "open"
                                       ELSE "create"]
    /\ UNCHANGED <<callers, exp_file_exists, exp_file_text, exp_lock,
                   current_num, returned_nums, exp_start>>
    /\ UNCHANGED <<agentVars, mainVars, fsVars, cliVars>>

\* exp_file.write_text("1"), first half: open(mode='w') creates the file or
\* empties it.
CreateFile(c) ==
    /\ exp_pc[c] = "create"
    /\ exp_file_exists' = TRUE
    /\ exp_file_text' = ""
    /\ exp_pc' = [exp_pc EXCEPT ![c] = "write_text"]
    /\ UNCHANGED <<callers, exp_lock, current_num, returned_nums, exp_start>>
    /\ UNCHANGED <<agentVars, mainVars, fsVars, cliVars>>

\* exp_file.write_text("1"), second half: "1" is written at the start of the
\* file (of at most one digit here).
WriteText(c) ==
    /\ exp_pc[c] = "write_text"
    /\ exp_file_text' = "1"
    /\ exp_pc' = [exp_pc EXCEPT ![c] = "open"]
    /\ UNCHANGED <<callers, exp_file_exists, exp_lock, current_num,
                   returned_nums, exp_start>>
    /\ UNCHANGED <<agentVars, mainVars, fsVars, cliVars>>

\* with open(exp_file, 'r+') as f: fcntl.flock(f.fileno(), fcntl.LOCK_EX),
\* which waits until no other open file holds the lock.
LockFile(c) ==
    /\ exp_pc[c] = "open"
    /\ exp_lock = "none"
    /\ exp_lock' = c
    /\ exp_pc' = [exp_pc EXCEPT ![c] = "read"]
    /\ UNCHANGED <<callers, exp_file_exists, exp_file_text, current_num,
                   returned_nums, exp_start>>
    /\ UNCHANGED <<agentVars, mainVars, fsVars, cliVars>>

\* current_num = int(f.read().strip() or "1")
ReadFile(c) ==
    /\ exp_pc[c] = "read"
    /\ current_num' = [current_num EXCEPT ![c] = ReadNumber(exp_file_text)]
    /\ exp_pc' = [exp_pc EXCEPT ![c] = "write"]
    /\ UNCHANGED <<callers, exp_file_exists, exp_file_text, exp_lock,
                   returned_nums, exp_start>>
    /\ UNCHANGED <<agentVars, mainVars, fsVars, cliVars>>

\* f.seek(0); f.write(str(current_num + 1)); f.truncate()
WriteFile(c) ==
    /\ exp_pc[c] = "write"
    /\ exp_file_text' = ToString(current_num[c] + 1)
    /\ exp_pc' = [exp_pc EXCEPT ![c] = "return"]
    /\ UNCHANGED <<callers, exp_file_exists, exp_lock, current_num,
                   returned_nums, exp_start>>
    /\ UNCHANGED <<agentVars, mainVars, fsVars, cliVars>>

\* return current_num, the finally clause releasing the lock.
ReturnNumber(c) ==
    /\ exp_pc[c] = "return"
    /\ exp_lock' = "none"
    /\ returned_nums' = [returned_nums EXCEPT
                            ![c] = Append(@, ReturnedNumber(current_num[c]))]
    /\ exp_pc' = [exp_pc EXCEPT ![c] = "idle"]
    /\ UNCHANGED <<callers, exp_file_exists, exp_file_text, current_num,
                   exp_start>>
    /\ UNCHANGED <<agentVars, mainVars, fsVars, cliVars>>

\* One caller or several, with the counter file absent or holding a number.
\* The agents when only a helper runs: nothing constructed, nothing called.
AgentsIdle ==
    /\ strict_iters = None
    /\ max_iters = MaxIters
    /\ pc = "helpers"
    /\ idx = 0
    /\ trajectory = <<>>
    /\ pred = <<>>
    /\ result = <<>>
    /\ error = ""
    /\ calls = <<>>
    /\ chosen = <<>>
    /\ written = {}
    /\ failed = {}
    /\ invoked = {}
    /\ truncs = 0
    /\ history = <<>>
    /\ usage_on = TRUE
    /\ hist0 = 0
    /\ agent_result = <<>>
    /\ task_no = 1
    /\ n_tasks = 1
    /\ tool_list = <<>>
    /\ tools_dict = <<>>
    /\ literal = <<>>
    /\ mcp_pc = "idle"
    /\ mcp_step = 0
    /\ mcp_open = <<>>
    /\ mcp_log = <<>>
    /\ dspy_tools = <<>>
    /\ mcp_exc = ""

InitCounter ==
    /\ callers \in (SUBSET AllCallers) \ {{}}
    /\ \/ /\ exp_file_exists = FALSE
          /\ exp_file_text = ""
          /\ exp_start = 1
       \/ \E n \in StoredAtFirst :
             /\ exp_file_exists = TRUE
             /\ exp_file_text = ToString(n)
             /\ exp_start = n
    /\ exp_lock = "none"
    /\ exp_pc = [c \in callers |-> "idle"]
    /\ current_num = [c \in callers |-> 0]
    /\ returned_nums = [c \in callers |-> <<>>]
    /\ AgentsIdle
    /\ MainIdle
    /\ FsIdle
    /\ CliIdle

NextCounter ==
    \/ \E c \in callers : CallCounter(c)
    \/ \E c \in callers : CheckExists(c)
    \/ \E c \in callers : CreateFile(c)
    \/ \E c \in callers : WriteText(c)
    \/ \E c \in callers : LockFile(c)
    \/ \E c \in callers : ReadFile(c)
    \/ \E c \in callers : WriteFile(c)
    \/ \E c \in callers : ReturnNumber(c)

SpecCounter == InitCounter /\ [][NextCounter]_vars

\* Every call attempt returns or fails, and every tool call returns or raises:
\* ------------------------------------------------------ main_execution
\* The most tasks a task file holds.
MaxFileTasks == 2

\* The token counts an agent reports for a task: none, a negative number,
\* zero, a positive number.
TokenCounts == {None, -2, 0, 2}

OutputTokenCounts == {None, 1}

\* The cost an agent reports for a task, in whole units.
Costs == {None, 3}

\* agent_main returned None.
NoResult == [none |-> TRUE]

\* What agent_main can return: nothing, or an object with the fields
\* main_execution reads.  accepted tells whether TaskLog takes the object as
\* its result (an AgentResult or a dict of its fields) or raises a
\* validation error (any other object, such as the Prediction the agent
\* with the tool servers returns).
AgentReturnValues ==
    [completed : BOOLEAN, input_tokens : TokenCounts,
     output_tokens : OutputTokenCounts, cost : Costs, accepted : BOOLEAN]

\* Whether TaskLog(result=r) validates: result is Optional[AgentResult].
Accepted(r) == IF r = NoResult THEN TRUE ELSE r.accepted

\* The values main_execution reads off the result (lines 266-277).
TaskValue(r, field) == IF r = NoResult THEN None ELSE r[field]

\* What a task adds to a total whenever its value is not None.
Counted_NotNone(v) == IF v # None THEN v ELSE 0

\* What a task adds to a total: "if v is not None and v > 0: total += v".
Counted(v) == IF v # None /\ v > 0 THEN v ELSE 0

\* sum(1 for log in task_logs if log.result and log.result.completed)
RECURSIVE CompletedTasks(_)
CompletedTasks(logs) ==
    IF logs = <<>> THEN 0
    ELSE (IF Head(logs).result # NoResult /\ Head(logs).result.completed
          THEN 1 ELSE 0) + CompletedTasks(Tail(logs))

\* total_score = f"{completed_tasks}/{total_tasks}" with
\* total_tasks = len(task_logs).
TotalScore(logs) ==
    ToString(CompletedTasks(logs)) \o "/" \o ToString(Len(logs))

\* summary_dict as dumped with exclude_none: the token fields and the cost
\* field are set only under their conditions.  total_time, agent_name and
\* run_dir do not depend on the tasks and are left out.
SummaryDict(logs, inTok, outTok, cost) ==
    LET score == TotalScore(logs)
        tokens == inTok > 0 \/ outTok > 0
    IN  IF tokens /\ cost > 0
        THEN [total_score |-> score, task_logs |-> logs,
              input_tokens |-> inTok, output_tokens |-> outTok,
              total_tokens |-> inTok + outTok, total_cost |-> cost]
        ELSE IF tokens
        THEN [total_score |-> score, task_logs |-> logs,
              input_tokens |-> inTok, output_tokens |-> outTok,
              total_tokens |-> inTok + outTok]
        ELSE IF cost > 0
        THEN [total_score |-> score, task_logs |-> logs,
              total_cost |-> cost]
        ELSE [total_score |-> score, task_logs |-> logs]

\* What main_execution leaves alone.
mainOthers == <<agentVars, cntVars, fsVars, cliVars>>

\* A loop without the except clause: the exception of a task leaves the
\* loop and main_execution.
TaskRaises_Stops ==
    /\ main_pc = "tasks"
    /\ main_i <= main_n
    /\ task_outcomes' =
           Append(task_outcomes,
                  [i |-> main_i, raised |-> TRUE, result |-> NoResult])
    /\ main_pc' = "raised"
    /\ UNCHANGED <<main_i, main_n, main_result, task_logs, input_tokens,
                   output_tokens, total_cost, summary, mainOthers>>

\* The try block of a task raises before the totals are updated: Task(**)
\* rejects the entry, the source environment is missing, or agent_main
\* raises.  The except clause prints and logs, and the loop goes on.
TaskRaises ==
    /\ main_pc = "tasks"
    /\ main_i <= main_n
    /\ task_outcomes' =
           Append(task_outcomes,
                  [i |-> main_i, raised |-> TRUE, result |-> NoResult])
    /\ main_i' = main_i + 1
    /\ UNCHANGED <<main_pc, main_n, main_result, task_logs, input_tokens,
                   output_tokens, total_cost, summary, mainOthers>>

\* The totals after lines 280-285 for the result r.
TotalsUpdated(r) ==
    /\ input_tokens' = input_tokens + Counted(TaskValue(r, "input_tokens"))
    /\ output_tokens' =
           output_tokens + Counted(TaskValue(r, "output_tokens"))
    /\ total_cost' = total_cost + Counted(TaskValue(r, "cost"))

\* A task runs to line 352: agent_main returns r, the totals are updated,
\* the evaluations run (their exceptions are caught where they are raised),
\* and the TaskLog is appended.
TaskLogged(r) ==
    /\ main_pc = "tasks"
    /\ main_i <= main_n
    /\ Accepted(r)
    /\ main_result' = r
    /\ TotalsUpdated(r)
    /\ task_logs' = Append(task_logs, [task_id |-> main_i, result |-> r])
    /\ task_outcomes' =
           Append(task_outcomes,
                  [i |-> main_i, raised |-> FALSE, result |-> r])
    /\ main_i' = main_i + 1
    /\ UNCHANGED <<main_pc, main_n, summary, mainOthers>>

\* agent_main returns r and the totals are updated, but TaskLog(...) raises
\* a validation error for r: nothing is appended to task_logs.
TaskLogRaises(r) ==
    /\ main_pc = "tasks"
    /\ main_i <= main_n
    /\ ~Accepted(r)
    /\ main_result' = r
    /\ TotalsUpdated(r)
    /\ task_outcomes' =
           Append(task_outcomes,
                  [i |-> main_i, raised |-> TRUE, result |-> r])
    /\ main_i' = main_i + 1
    /\ UNCHANGED <<main_pc, main_n, task_logs, summary, mainOthers>>

\* Lines 358-406, after the loop: the summary is built and dumped.
WriteSummary ==
    /\ main_pc = "tasks"
    /\ main_i > main_n
    /\ summary' = SummaryDict(task_logs, input_tokens,
                              output_tokens, total_cost)
    /\ main_pc' = "written"
    /\ UNCHANGED <<main_n, main_i, main_result, task_logs, input_tokens,
                   output_tokens, total_cost, task_outcomes, mainOthers>>

\* main_execution has loaded a task file of up to MaxFileTasks tasks.
InitMain ==
    /\ main_pc = "tasks"
    /\ main_n \in 0..MaxFileTasks
    /\ main_i = 1
    /\ main_result = NoResult
    /\ task_logs = <<>>
    /\ input_tokens = 0
    /\ output_tokens = 0
    /\ total_cost = 0
    /\ summary = <<>>
    /\ task_outcomes = <<>>
    /\ AgentsIdle
    /\ CounterIdle
    /\ FsIdle
    /\ CliIdle

NextMain ==
    \/ TaskRaises
    \/ \E r \in AgentReturnValues \cup {NoResult} : TaskLogged(r)
    \/ \E r \in AgentReturnValues : TaskLogRaises(r)
    \/ WriteSummary

SpecMain == InitMain /\ [][NextMain]_vars

\* main_execution is one sequential run: it goes on as long as it has a next
\* statement.
FairSpecMain == SpecMain /\ WF_vars(NextMain)


\* ---------------------------------------------------- the file actions
\* The most calls of file actions on one env.
MaxOps == 3

\* A text is the sequence of its lines: the text is the lines joined by
\* "\n".  The marker of a code block, three backquotes, is written ''' here.
Fence == "'''"

FenceWithLanguage == "'''python"

\* The texts a file is created with.
Contents == {<<"x = 0">>}

\* The texts ai returns: bare, between code block markers, and a lone
\* marker.
AiOutputs ==
    {<<"x = 1">>, <<FenceWithLanguage, "x = 1", Fence>>, <<Fence>>}

\* The filepath arguments, each the sequence of its components below env.
FilePaths ==
    {<<"a.txt">>, <<"sub", "b.txt">>, <<"sub">>, <<"a.txt", "c">>}

\* The env folders the actions start on: an empty one, and clones of source
\* environments.
StartTrees ==
    {[dirs |-> {<<>>}, files |-> <<>>],
     [dirs |-> {<<>>}, files |-> (<<"a.txt">> :> <<"x = 0">>)],
     [dirs |-> {<<>>, <<"sub">>},
      files |-> (<<"a.txt">> :> <<"x = 0">>)
                @@ (<<"sub", "b.txt">> :> <<"x = 0">>)]}

\* os.path.dirname
Dirname(path) == SubSeq(path, 1, Len(path) - 1)

\* The directories above a path, env first.
Ancestors(path) == {SubSeq(path, 1, k) : k \in 0..(Len(path) - 1)}

IsFile(files, path) == path \in DOMAIN files

\* os.path.exists
PathExists(dirs, files, path) == path \in dirs \/ IsFile(files, path)

\* os.listdir
Listdir(dirs, files, dir) ==
    {q \in dirs \cup DOMAIN files : Len(q) > 0 /\ Dirname(q) = dir}

\* The error of the operating system for a path that names a regular file:
\* ENOTDIR if a component above it is a regular file, ENOENT if a component
\* above it or the path itself is missing, EISDIR if it is a directory.
FileError(dirs, files, path) ==
    IF \E q \in Ancestors(path) : IsFile(files, q) THEN "NotADirectoryError"
    ELSE IF \E q \in Ancestors(path) : q \notin dirs
    THEN "FileNotFoundError"
    ELSE IF path \in dirs THEN "IsADirectoryError"
    ELSE IF ~IsFile(files, path) THEN "FileNotFoundError"
    ELSE ""

WithFile(files, path, content) ==
    [q \in DOMAIN files \cup {path} |->
        IF q = path THEN content ELSE files[q]]

WithoutFile(files, path) == [q \in DOMAIN files \ {path} |-> files[q]]

\* What the file actions leave alone.
fsOthers == <<agentVars, cntVars, mainVars, cliVars>>

\* No action has been called on env yet.
NoCall == [name |-> "", filepath |-> <<>>, n |-> 0]

Called(name, path) ==
    /\ fs_op' = [name |-> name, filepath |-> path,
                 n |-> fs_op.n + 1]
    /\ fs_prev' = [dirs |-> fs_dirs, files |-> fs_files,
                   ai_calls |-> Len(ai_calls)]

CanCall == fs_op.n < MaxOps

\* create_new_file: os.makedirs(dirname, exist_ok=True), then open(.., "w")
\* and write.
create_new_file(path, content) ==
    /\ CanCall
    /\ Called("create_file", path)
    /\ LET made == fs_dirs \cup Ancestors(path)
       IN  IF \E q \in Ancestors(path) : IsFile(fs_files, q)
           THEN /\ fs_ret' = IF IsFile(fs_files, Dirname(path))
                             THEN "FileExistsError"
                             ELSE "NotADirectoryError"
                /\ UNCHANGED <<fs_dirs, fs_files>>
           ELSE IF path \in made
           THEN /\ fs_ret' = "IsADirectoryError"
                /\ fs_dirs' = made
                /\ UNCHANGED fs_files
           ELSE /\ fs_ret' = "True"
                /\ fs_dirs' = made
                /\ fs_files' = WithFile(fs_files, path, content)
    /\ UNCHANGED <<ai_calls, fsOthers>>

\* The directories after delete_existing_file removed a file whose parent
\* is never removed.
DirsAfterRemove_Kept(dirs, files, path) == dirs

\* The directories after delete_existing_file removed the file at path, files
\* being the files that are left: the parent goes if it exists and is
\* empty.
DirsAfterRemove(dirs, files, path) ==
    IF /\ PathExists(dirs, files, Dirname(path))
       /\ Listdir(dirs, files, Dirname(path)) = {}
    THEN dirs \ {Dirname(path)}
    ELSE dirs

\* delete_existing_file: os.remove, then the parent directory is removed if
\* it is empty; only FileNotFoundError is caught.
delete_existing_file(path) ==
    /\ CanCall
    /\ Called("delete_file", path)
    /\ LET err == FileError(fs_dirs, fs_files, path)
       IN  IF err = "FileNotFoundError"
           THEN /\ fs_ret' = "False"
                /\ UNCHANGED <<fs_dirs, fs_files>>
           ELSE IF err # ""
           THEN /\ fs_ret' = err
                /\ UNCHANGED <<fs_dirs, fs_files>>
           ELSE /\ fs_ret' = "True"
                /\ fs_files' = WithoutFile(fs_files, path)
                /\ fs_dirs' = DirsAfterRemove(fs_dirs,
                                  WithoutFile(fs_files, path), path)
    /\ UNCHANGED <<ai_calls, fsOthers>>

\* new_content[:-3] of a text whose last line is the closing marker: the
\* newline before it stays, so an empty last line is left.
WithoutClosingFence(text) ==
    [text EXCEPT ![Len(text)] = ""]

\* The text written by an edit that writes what ai returned as it is.
StripCodeBlock_Raw(text) == text

\* Lines 34-42 of edit_existing_file: the text up to the first newline goes
\* if the text starts with the marker (nothing goes if there is no
\* newline), then the last three characters go if the text ends with the
\* marker.
StripCodeBlock(text) ==
    LET opened == IF Head(text) \in {Fence, FenceWithLanguage}
                     /\ Len(text) > 1
                  THEN Tail(text) ELSE text
    IN  IF opened[Len(opened)] = Fence
        THEN WithoutClosingFence(opened) ELSE opened

\* edit_existing_file: reads the file, calls ai once, strips the markers of
\* a code block and writes the text back; only FileNotFoundError is caught.
edit_existing_file(path, output) ==
    /\ CanCall
    /\ Called("edit_file", path)
    /\ LET err == FileError(fs_dirs, fs_files, path)
       IN  IF err = "FileNotFoundError"
           THEN /\ fs_ret' = "False"
                /\ UNCHANGED <<fs_dirs, fs_files, ai_calls>>
           ELSE IF err # ""
           THEN /\ fs_ret' = err
                /\ UNCHANGED <<fs_dirs, fs_files, ai_calls>>
           ELSE /\ fs_ret' = "True"
                /\ ai_calls' = Append(ai_calls,
                       [content |-> fs_files[path], returned |-> output])
                /\ fs_files' =
                       WithFile(fs_files, path, StripCodeBlock(output))
                /\ UNCHANGED fs_dirs
    /\ UNCHANGED fsOthers

\* ActionsReAct(env) on a fresh or a cloned env folder.
InitFiles ==
    /\ \E t \in StartTrees : fs_dirs = t.dirs /\ fs_files = t.files
    /\ fs_op = NoCall
    /\ fs_ret = ""
    /\ fs_prev = <<>>
    /\ ai_calls = <<>>
    /\ AgentsIdle
    /\ CounterIdle
    /\ MainIdle
    /\ CliIdle

NextFiles ==
    \/ \E path \in FilePaths, content \in Contents :
           create_new_file(path, content)
    \/ \E path \in FilePaths : delete_existing_file(path)
    \/ \E path \in FilePaths, output \in AiOutputs :
           edit_existing_file(path, output)

SpecFiles == InitFiles /\ [][NextFiles]_vars


\* ------------------------------------------------------ the tag command
\* The task descriptions given on the command line, each with the task_id
\* lines 109-111 make of it: its first three words, lower case, joined
\* by "_".
Descriptions ==
    {[text |-> "Write a hello world script", task_id |-> "write_a_hello"],
     [text |-> "Fix the tests", task_id |-> "fix_the_tests"]}

\* The values of --eval: not given, a script that exists, a path that does
\* not exist.
EvalArgs == {"", "my_eval.py", "missing_eval.py"}

\* The scripts that exist, with their contents.
Scripts == ("my_eval.py" :> "custom checks")

\* The values of --env: not given, an environment with an eval.py of its
\* own, one without, and a directory that does not exist.
EnvArgs == {"", "example", "bare", "nowhere"}

\* The numbers the counter file stands at when the command starts.
FirstNumbers == {1, 7}

\* f"{task_id}_{exp_num}"
DirName(task_id, exp_num) == task_id \o "_" \o ToString(exp_num)

\* Nothing was copied.
NoCopy == [dir |-> "", script |-> ""]

\* What the tag command leaves alone.
cliOthers == <<agentVars, cntVars, mainVars, fsVars>>

\* task_config["dir_name"] after lines 118-141: the directory made for
\* --eval, replaced by --env if there is one; "" stands for None.
TaskDirName(eval_dir, env) == IF env # "" THEN env ELSE eval_dir

\* run_task, no --task: builds the task, copies the script of --eval to
\* evals/<task_id>_<exp_num>/eval.py if the script exists, writes the task
\* file and calls main_execution.
CreateTask ==
    /\ cli_pc = "run_task"
    /\ LET task_id == cli_args.description.task_id
           with_eval == cli_args.eval # ""
           dir_name == DirName(task_id, next_exp)
           copies == with_eval /\ cli_args.eval \in DOMAIN Scripts
       IN  /\ task_config' =
                 [task_id |-> task_id,
                  dir_name |-> TaskDirName(IF with_eval THEN dir_name ELSE "",
                                           cli_args.env)]
           /\ evals' = IF copies
                       THEN [d \in DOMAIN evals \cup {dir_name} |->
                               IF d = dir_name THEN Scripts[cli_args.eval]
                               ELSE evals[d]]
                       ELSE evals
           /\ copied' = IF copies
                        THEN [dir |-> dir_name,
                              script |-> Scripts[cli_args.eval]]
                        ELSE NoCopy
           /\ next_exp' = next_exp + (IF with_eval THEN 2 ELSE 1)
    /\ cli_pc' = "environment"
    /\ UNCHANGED <<cli_args, envs, looked_up, eval_run, cli_outcome,
                   cliOthers>>

\* f"{exp_num}_{task_name}_{datetime}", the date left out.
InstanceId == ToString(next_exp) \o "_task"

\* main_execution up to line 245 for the one task of the file: the run
\* directory, then the environment: a clone of envs/<dir_name>, which must
\* exist, or a new empty directory.
SetupEnvironment ==
    /\ cli_pc = "environment"
    /\ next_exp' = next_exp + 1
    /\ IF task_config.dir_name = ""
       THEN /\ envs' = envs \cup {InstanceId}
            /\ cli_pc' = "agent"
            /\ UNCHANGED cli_outcome
       ELSE IF task_config.dir_name \notin envs
       THEN /\ cli_outcome' = "FileNotFoundError"
            /\ cli_pc' = "over"
            /\ UNCHANGED envs
       ELSE /\ envs' = envs \cup {task_config.dir_name \o "_" \o InstanceId}
            /\ cli_pc' = "agent"
            /\ UNCHANGED cli_outcome
    /\ UNCHANGED <<cli_args, evals, task_config, copied, looked_up, eval_run,
                   cliOthers>>

\* Lines 247-301: the agent runs and returns, or raises and the task is
\* over; the LLM evaluation keeps its exceptions to itself.
RunAgent ==
    /\ cli_pc = "agent"
    /\ \E returns \in BOOLEAN :
          IF returns
          THEN cli_pc' = "evaluation" /\ UNCHANGED cli_outcome
          ELSE cli_pc' = "over" /\ cli_outcome' = "agent raised"
    /\ UNCHANGED <<cli_args, next_exp, envs, evals, task_config, copied,
                   looked_up, eval_run, cliOthers>>

\* Lines 303-341: if the task has a dir_name, evals/<dir_name>/eval.py is
\* looked up and, if it exists, run.
TaskEvaluation ==
    /\ cli_pc = "evaluation"
    /\ looked_up' = task_config.dir_name
    /\ eval_run' = IF task_config.dir_name \in DOMAIN evals
                   THEN evals[task_config.dir_name] ELSE ""
    /\ cli_outcome' = "logged"
    /\ cli_pc' = "over"
    /\ UNCHANGED <<cli_args, next_exp, envs, evals, task_config, copied,
                   cliOthers>>

\* tag "<description>" [--eval ...] [--env ...], in a checkout that has the
\* environments example (with an evaluation of its own) and bare, and
\* perhaps a directory below envs/ with the very name run_task is going to
\* make for the task.
InitCli ==
    /\ cli_pc = "run_task"
    /\ \E description \in Descriptions, eval \in EvalArgs, env \in EnvArgs :
          cli_args = [description |-> description, eval |-> eval, env |-> env]
    /\ next_exp \in FirstNumbers
    /\ \E same \in BOOLEAN :
          envs = {"example", "bare"}
                 \cup (IF same
                       THEN {DirName(cli_args.description.task_id, next_exp)}
                       ELSE {})
    /\ evals = ("example" :> "checks of example")
    /\ task_config = <<>>
    /\ copied = NoCopy
    /\ looked_up = ""
    /\ eval_run = ""
    /\ cli_outcome = ""
    /\ AgentsIdle
    /\ CounterIdle
    /\ MainIdle
    /\ FsIdle

NextCli ==
    \/ CreateTask
    \/ SetupEnvironment
    \/ RunAgent
    \/ TaskEvaluation

SpecCli == InitCli /\ [][NextCli]_vars


\* forward is never left waiting.
FairSpec == Spec /\ WF_vars(Next)

\* ------------------------------------------------------------ properties
\* Calls of one module, and those that returned.
CallsOf(module) == {n \in 1..Len(calls) : calls[n].module = module}

ReturnedCallsOf(module) ==
    {n \in CallsOf(module) : calls[n].outcome = "ok"}

\* The keys of step i.
StepKeys(i) == {Key(Kinds[n], i) : n \in 1..KeysPerStep}

\* C1: in early-termination mode, once the model has chosen finish at
\* iteration k, the loop ends right after iteration k's four entries are
\* recorded: no step call is issued for iteration k+1 and no key with index
\* k+1 is ever written.
C1_EarlyExit ==
    \A k \in 0..(Len(chosen) - 1) :
        (strict_iters = None /\ chosen[k + 1] = "finish") =>
            /\ Len(chosen) = k + 1
            /\ idx = k
            /\ \A n \in CallsOf("react") : calls[n].idx <= k
            /\ StepKeys(k + 1) \cap written = {}
            /\ pc \in {"dispatch", "extract_call", "returned", "raised", "done"}
            /\ pc # "dispatch" => StepKeys(k) \subseteq written

\* A run that returned after the model chose finish at an iteration k >= 1
\* with iterations left in the budget.
C1_Witness ==
    /\ strict_iters = None
    /\ pc = "returned"
    /\ Len(chosen) >= 2
    /\ chosen[Len(chosen)] = "finish"
    /\ Len(chosen) < max_iters

\* C2: in fixed-iteration mode a run that returns has executed exactly
\* strict_iters iterations, whatever tools were chosen and whatever max_iters
\* is: one returned step call, one dispatch and one four-key record per
\* iteration, and never an iteration beyond strict_iters.
C2_FixedIterations ==
    strict_iters # None =>
        /\ Len(chosen) <= strict_iters
        /\ \A n \in CallsOf("react") : calls[n].idx < strict_iters
        /\ pc = "returned" =>
              /\ Len(chosen) = strict_iters
              /\ Cardinality(ReturnedCallsOf("react")) = strict_iters
              /\ written = UNION {StepKeys(i) : i \in 0..(strict_iters - 1)}
              /\ Cardinality(written) = KeysPerStep * strict_iters

\* A fixed-iteration run that returned with max_iters different from
\* strict_iters and with two different tools chosen on the way.
C2_Witness ==
    /\ strict_iters # None
    /\ strict_iters >= 2
    /\ max_iters # strict_iters
    /\ pc = "returned"
    /\ chosen[1] # chosen[2]

\* C3: a dispatch that raises never leaves the step: the exception text is
\* recorded as that step's observation behind "Failed to execute: ", no error
\* leaves forward, and the loop goes to the next iteration, or to extraction
\* when the budget is used up.
C3_DispatchIsolation ==
    [][\A f \in failed' \ failed :
          /\ pc = "dispatch"
          /\ f[1] = idx
          /\ DictGet(trajectory', Key("observation", f[1]))
                = "Failed to execute: " \o f[2]
          /\ error' = ""
          /\ IF f[1] + 1 < (IF strict_iters # None THEN strict_iters
                            ELSE max_iters)
             THEN pc' = "step_call" /\ idx' = f[1] + 1
             ELSE pc' = "extract_call"]_vars

\* A step call is being issued right after an iteration whose tool raised.
C3_Witness ==
    /\ pc = "step_call"
    /\ idx >= 1
    /\ \E e \in ToolErrors : <<idx - 1, e>> \in failed
    /\ Key("observation", idx - 1) \in KeySet(trajectory)

\* The step indices that have at least one key in traj, and those that have
\* all four.
StepsIn(traj) ==
    {i \in 0..MaxIters : StepKeys(i) \cap KeySet(traj) # {}}

WholeStepsIn(traj) ==
    {i \in 0..MaxIters : StepKeys(i) \subseteq KeySet(traj)}

Lowest(S) == CHOOSE i \in S : \A j \in S : i <= j

\* A call attempt has just failed with a context overflow.
OverflowStep ==
    /\ Len(calls') = Len(calls) + 1
    /\ calls'[Len(calls')].outcome = "overflow"

\* C4: each successful truncation removes exactly the four keys of the
\* lowest step index still present, so that one step fewer remains, and
\* leaves every other entry as it was, in the same order.
C4_TruncationFrame ==
    [][truncs' = truncs + 1 =>
          LET lo == Lowest(StepsIn(trajectory)) IN
          /\ OverflowStep
          /\ StepKeys(lo) \subseteq KeySet(trajectory)
          /\ KeySet(trajectory') = KeySet(trajectory) \ StepKeys(lo)
          /\ Cardinality(WholeStepsIn(trajectory'))
                = Cardinality(WholeStepsIn(trajectory)) - 1
          /\ trajectory'
                = SelectSeq(trajectory, LAMBDA kv : kv[1] \notin StepKeys(lo))]_vars

\* One truncation has happened and a later step is still in the trajectory.
C4_Witness ==
    /\ truncs = 1
    /\ Len(trajectory) >= KeysPerStep
    /\ Key("thought", 0) \notin KeySet(trajectory)

\* C5: an overflow met while the trajectory holds exactly one step raises the
\* too-short error and removes nothing, so the last step is never discarded.
C5_LastStepKept ==
    [][(OverflowStep /\ Len(trajectory) = KeysPerStep) =>
          (pc' = "raised" /\ error' = TruncationError
           /\ trajectory' = trajectory)]_vars

\* C6: whenever the trajectory holds the four keys of step i it holds those
\* of every step j < i.
C6_NoGapsFromZero ==
    \A i \in WholeStepsIn(trajectory) :
        \A j \in 0..(i - 1) : j \in WholeStepsIn(trajectory)

\* C6 as amended: the steps below the number of truncations done so far are
\* gone, and whenever the trajectory holds the four keys of step i it holds
\* those of every step j < i that no truncation removed.
C6_NoGapsAboveTruncated ==
    /\ \A j \in 0..(truncs - 1) : j \notin StepsIn(trajectory)
    /\ \A i \in WholeStepsIn(trajectory) :
          \A j \in truncs..(i - 1) : j \in WholeStepsIn(trajectory)

\* Two whole steps are in the trajectory after a truncation removed an
\* older one.
C6_Witness ==
    /\ truncs >= 1
    /\ Cardinality(WholeStepsIn(trajectory)) >= 2

\* C7: when forward returns, the trajectory in its result holds one four-key
\* record for every iteration the loop executed.
C7_EveryIterationInResult ==
    pc = "returned" =>
        /\ Len(result.trajectory) = KeysPerStep * Len(chosen)
        /\ \A i \in 0..(Len(chosen) - 1) :
              StepKeys(i) \subseteq KeySet(result.trajectory)

\* The same for the runs in which no overflow met a trajectory of exactly
\* one step: the loss of steps does not rest on the guard of the last step.
C7_EveryIterationInResult_TwoSteps ==
    (\A n \in 1..Len(calls) :
        calls[n].outcome = "overflow" => calls[n].keys # KeysPerStep)
    => C7_EveryIterationInResult

\* The keys of steps lo..hi in the order they are written.
RECURSIVE KeysOfSteps(_, _)
KeysOfSteps(lo, hi) ==
    IF lo > hi THEN <<>>
    ELSE [n \in 1..KeysPerStep |-> Key(Kinds[n], lo)] \o KeysOfSteps(lo + 1, hi)

\* C7 as amended: when forward returns, the trajectory in its result holds
\* exactly one four-key record for every executed iteration that overflow
\* recovery did not remove, in order: those of the last (iterations minus
\* truncations) iterations, a failed dispatch being recorded with its
\* failure observation.
C7_EveryKeptIterationInResult ==
    pc = "returned" =>
        /\ Keys(result.trajectory) = KeysOfSteps(truncs, Len(chosen) - 1)
        /\ \A f \in failed :
              f[1] >= truncs =>
                 DictGet(result.trajectory, Key("observation", f[1]))
                    = "Failed to execute: " \o f[2]

\* A run returned after a truncation, with a failed dispatch among the
\* iterations that remain in its result.
C7_Witness ==
    /\ pc = "returned"
    /\ truncs >= 1
    /\ \E f \in failed : f[1] >= truncs

\* forward is inside _call_with_potential_trajectory_truncation.
InCall == pc \in {"step_call", "extract_call"}

\* Attempts n0 <= n belong to the same call: the same module at the same
\* iteration, with nothing but overflows from n0 up to n.
SameCall(n0, n) ==
    /\ n0 <= n
    /\ calls[n0].module = calls[n].module
    /\ calls[n0].idx = calls[n].idx

\* The retries of a call shrink the trajectory: the attempt after an
\* overflow is a retry of the same call with fewer keys, a call that started
\* with k steps makes at most k + 1 attempts, and the ValueError leaves
\* forward only from an overflow on a trajectory that is too short.
C8_Variant ==
    /\ \A n \in 2..Len(calls) :
          calls[n - 1].outcome = "overflow" =>
             /\ SameCall(n - 1, n)
             /\ calls[n].keys < calls[n - 1].keys
    /\ \A n0 \in 1..Len(calls) : \A n \in n0..Len(calls) :
          SameCall(n0, n) => (n - n0) * KeysPerStep <= calls[n0].keys
    /\ (pc = "raised" /\ error = TruncationError) =>
          /\ calls[Len(calls)].outcome = "overflow"
          /\ calls[Len(calls)].keys < KeysPerStep
    /\ (pc = "raised" /\ error # TruncationError) =>
          calls[Len(calls)].outcome \in {"rejected", "failed"}

\* C8: every call made through overflow recovery ends, given that each
\* attempt returns or fails: each overflow is followed by a truncation that
\* shrinks the trajectory before the retry, so the call returns or the
\* too-short error leaves it after finitely many attempts.
C8_CallTerminates ==
    /\ []C8_Variant
    /\ InCall ~> ~InCall

\* A step call returned at its third attempt, after two overflows.
C8_Witness ==
    /\ Len(calls) >= 3
    /\ calls[Len(calls)].outcome = "ok"
    /\ calls[Len(calls)].module = "react"
    /\ calls[Len(calls) - 1].outcome = "overflow"
    /\ calls[Len(calls) - 2].outcome = "overflow"

\* C9: however the loop ended, an extraction call has been issued by the
\* time the run is over.
C9_AlwaysExtracts ==
    pc \in {"returned", "raised"} => CallsOf("extract") # {}

\* C9 as amended: when the loop ends on finish or on the exhausted budget,
\* forward goes to the extraction call, issued after every step call with the
\* trajectory as it then is, and forward returns only once one extraction
\* attempt has returned, the last call of the run, made with the trajectory
\* of the result; when a step call meets the fatal overflow, the ValueError
\* leaves forward and no extraction call is issued.
C9_ExtractsUnlessStepFatal ==
    /\ \A n \in CallsOf("extract") : \A m \in CallsOf("react") : m < n
    /\ pc = "returned" =>
          /\ Cardinality(ReturnedCallsOf("extract")) = 1
          /\ Len(calls) \in ReturnedCallsOf("extract")
          /\ calls[Len(calls)].trajectory = FormatTrajectory(result.trajectory)
          /\ \/ strict_iters = None /\ chosen # <<>>
                /\ chosen[Len(chosen)] = "finish"
             \/ Len(chosen) = (IF strict_iters # None THEN strict_iters
                               ELSE max_iters)
    /\ (pc = "raised" /\ calls[Len(calls)].module = "react") =>
          CallsOf("extract") = {}
    /\ (pc = "raised" /\ calls[Len(calls)].module = "extract") =>
          ReturnedCallsOf("extract") = {}

\* The budget ran out, the extraction call overflowed once and was retried,
\* and forward returned.
C9_Witness ==
    /\ pc = "returned"
    /\ strict_iters = None
    /\ max_iters >= 2
    /\ Len(chosen) = max_iters
    /\ chosen[Len(chosen)] # "finish"
    /\ Cardinality(CallsOf("extract")) = 2

\* A step call met the fatal overflow after a step had been recorded.
C9_WitnessStepFatal ==
    /\ pc = "raised"
    /\ calls[Len(calls)].module = "react"
    /\ written # {}

\* The iteration at which finish was first chosen.
FirstFinish == Lowest({k \in 0..(Len(chosen) - 1) : chosen[k + 1] = "finish"})

Overflows == {n \in 1..Len(calls) : calls[n].outcome = "overflow"}

\* C10: in a run without context overflow where finish is first chosen at
\* step k < max_iters, the extraction call runs exactly once, after step k
\* is recorded and after every step call, and the result carries exactly
\* the k + 1 steps 0..k.
C10_FinishScenario ==
    (/\ pc = "returned"
     /\ strict_iters = None
     /\ Overflows = {}
     /\ \E k \in 0..(Len(chosen) - 1) : chosen[k + 1] = "finish") =>
        /\ FirstFinish < max_iters
        /\ Cardinality(CallsOf("extract")) = 1
        /\ CallsOf("extract") = {Len(calls)}
        /\ CallsOf("react") = 1..(FirstFinish + 1)
        /\ calls[Len(calls)].keys = KeysPerStep * (FirstFinish + 1)
        /\ Keys(result.trajectory) = KeysOfSteps(0, FirstFinish)
        /\ DictGet(result.trajectory, Key("tool_name", FirstFinish)) = "finish"

\* create_file, read_file, finish: three steps in the result.
C10_Witness ==
    /\ pc = "returned"
    /\ strict_iters = None
    /\ Overflows = {}
    /\ failed = {}
    /\ chosen = <<"create_file", "read_file", "finish">>
    /\ Len(result.trajectory) = 3 * KeysPerStep

\* ------------------------------------------------------------ the usage of a run
\* The entries the current run has added to lm.history.
RunUsage == SubSeq(history, hist0 + 1, Len(history))

\* No usage data is available: lm.history holds no entry with a token count.
NoUsageData == SumPrompt(history) = 0 /\ SumCompletion(history) = 0

\* C11: when forward returns, the input_tokens and output_tokens of its result
\* are the sums of the prompt and completion tokens over the model calls of
\* this run (one entry per step call and extraction call that returned,
\* retried or not; an attempt that overflowed returned no response and no
\* usage), and total_tokens is their sum.
C11_UsageAdditivity ==
    pc = "returned" =>
        /\ Len(RunUsage) = Cardinality(ReturnedCallsOf("react"))
                             + Cardinality(ReturnedCallsOf("extract"))
        /\ result.input_tokens = SumPrompt(RunUsage)
        /\ result.output_tokens = SumCompletion(RunUsage)
        /\ result.total_tokens = result.input_tokens + result.output_tokens

\* C12: the token counts the agent reports for a run count no model call of
\* another run: they never exceed the usage of the run's own calls.
C12_RunsDoNotShareUsage ==
    (pc = "done" /\ error = "") =>
        /\ agent_result.input_tokens <= SumPrompt(RunUsage)
        /\ agent_result.output_tokens <= SumCompletion(RunUsage)

\* C13: the agent's main never raises; an exception that left forward becomes
\* a result with completed false and the result text "Error: " followed by
\* the text of the exception.
C13_EntryPointNeverRaises ==
    /\ pc # "main_raised"
    /\ (pc = "done" /\ error # "") =>
           /\ agent_result.completed = FALSE
           /\ agent_result.result = "Error: " \o error

C13_Witness ==
    /\ pc = "done"
    /\ error = TruncationError
    /\ agent_result.completed = FALSE
    /\ agent_result.result = "Error: " \o TruncationError

\* C14: when no usage data was available, every numeric field of the result
\* the agent returns is None, never zero.
C14_NullNotZero ==
    (pc = "done" /\ NoUsageData) =>
        /\ agent_result.input_tokens = None
        /\ agent_result.output_tokens = None
        /\ agent_result.cost = None


\* ------------------------------------------------------------ the registry
\* C15: no ReAct is constructed from a list in which two different functions
\* bear the same name.
C15_DuplicateNamesRejected ==
    pc = "built" =>
        \A i, j \in 1..Len(tool_list) :
            tool_list[i].name = tool_list[j].name =>
                tool_list[i].func = tool_list[j].func

\* C17: the names offered to the model (the Literal type of next_tool_name)
\* are the keys of the dispatch table: the names of the registered tools,
\* and finish exactly when strict_iters is None.
C17_OfferedNames ==
    pc = "built" =>
        LET offered == {literal[n] : n \in 1..Len(literal)} IN
        /\ offered = KeySet(tools_dict)
        /\ offered = NamesOf(tool_list)
                       \cup (IF strict_iters = None THEN {"finish"} ELSE {})
        /\ strict_iters # None => "finish" \notin offered

C17_Witness ==
    /\ pc = "built"
    /\ strict_iters = None
    /\ literal = <<"create_file", "read_file", "finish">>

C17_WitnessStrict ==
    /\ pc = "built"
    /\ strict_iters # None
    /\ literal = <<"create_file", "read_file">>


\* ------------------------------------------------------------ finish and the names
\* C16: the dispatch of finish never fails, whatever arguments the model gave:
\* its observation is "Completed." and no failure is recorded for its step.
C16_FinishNeverFails ==
    \A i \in 0..(Len(chosen) - 1) :
        chosen[i + 1] = "finish" =>
            /\ \A f \in failed : f[1] # i
            /\ Key("observation", i) \in KeySet(trajectory) =>
                   DictGet(trajectory, Key("observation", i)) = FinishReturn

\* finish was given an argument it does not declare and returned.
C16_Witness ==
    /\ pc = "extract_call"
    /\ chosen # <<>>
    /\ chosen[Len(chosen)] = "finish"
    /\ pred.next_tool_args # "{}"
    /\ DictGet(trajectory, Key("tool_args", idx)) = pred.next_tool_args
    /\ DictGet(trajectory, Key("observation", idx)) = FinishReturn

\* C18: a tool name outside the dispatch table never enters the dispatch: the
\* step call that answers it raises and the exception leaves forward with
\* nothing recorded for the step; no step records a tool-lookup failure.
C18_UnregisteredNameRejected ==
    /\ \A n \in 1..Len(chosen) : chosen[n] \in tools(strict_iters)
    /\ \A f \in failed : \A name \in UnregisteredNames : f[2] # LookupError(name)
    /\ \A n \in 1..Len(calls) :
           calls[n].outcome = "rejected" =>
               /\ n = Len(calls)
               /\ pc \in {"raised", "done"}
               /\ \E name \in UnregisteredNames : error = RejectedName(name)
               /\ KeySet(trajectory) \cap StepKeys(calls[n].idx) = {}

\* The model answered an unregistered name after one recorded step.
C18_Witness ==
    /\ pc = "raised"
    /\ calls # <<>>
    /\ calls[Len(calls)].outcome = "rejected"
    /\ Len(chosen) = 1
    /\ Len(trajectory) = KeysPerStep


\* ------------------------------------------------------------ the sessions
\* What run has to have done, in order, before the ReAct starts.
SetupOf(steps) == SubSeq(steps, 1, Len(steps) - 1)

\* The context managers of the events of one kind in the log, in order.
RECURSIVE ScopesOf(_, _)
ScopesOf(log, op) ==
    IF log = <<>> THEN <<>>
    ELSE (IF Head(log).op = op THEN <<Head(log).cm>> ELSE <<>>)
            \o ScopesOf(Tail(log), op)

Reverse(seq) == [n \in 1..Len(seq) |-> seq[Len(seq) + 1 - n]]

LoopStarted == \E n \in 1..Len(mcp_log) : mcp_log[n].op = "react"

\* C19: when the ReAct starts, both servers have been connected, their
\* sessions initialized and their tools listed, the filesystem one first; once
\* run is left after the loop, the four scopes have been exited in the reverse
\* order of their entry, those of the memory server first.
C19_SessionsAroundLoop ==
    /\ \A n \in 1..Len(mcp_log) :
           mcp_log[n].op = "react" =>
               /\ SubSeq(mcp_log, 1, n - 1) = SetupOf(McpSteps)
               /\ mcp_log[n - 1] = [op |-> "list_tools", cm |-> "session_1"]
    /\ (mcp_pc \in {"returned", "raised"} /\ LoopStarted) =>
           /\ ScopesOf(mcp_log, "exit")
                = <<"session_1", "stdio_1", "session_0", "stdio_0">>
           /\ ScopesOf(mcp_log, "exit") = Reverse(ScopesOf(mcp_log, "enter"))
           /\ \A n \in 1..Len(mcp_log) :
                  mcp_log[n].op = "exit" =>
                      \E m \in 1..(n - 1) : mcp_log[m].op = "react"

\* The loop returned with tools of both servers and run is left.
C19_Witness ==
    /\ mcp_pc = "returned"
    /\ LoopStarted
    /\ dspy_tools = <<"run_terminal_command", "read_file", "write_file",
                      "create_entities", "read_graph">>
    /\ mcp_open = <<>>
    /\ ScopesOf(mcp_log, "exit") = Reverse(ScopesOf(mcp_log, "enter"))

\* C20: however run is left (by its return, by an exception in the middle of
\* the loop, by a failure to connect or initialize a session), every scope it
\* entered has been exited, once, and none is left open.
C20_SessionsReleased ==
    mcp_pc \in {"returned", "raised"} =>
        /\ mcp_open = <<>>
        /\ \A n \in 1..Len(mcp_log) :
               mcp_log[n].op = "enter" =>
                   Cardinality({m \in (n + 1)..Len(mcp_log) :
                                   mcp_log[m] = [op |-> "exit",
                                                 cm |-> mcp_log[n].cm]}) = 1

\* initialize of the second session failed: three scopes entered before it and
\* the second session itself are released.
C20_Witness ==
    /\ mcp_pc = "raised"
    /\ mcp_exc = "initialize session_1 failed"
    /\ mcp_open = <<>>
    /\ ScopesOf(mcp_log, "exit") = <<"session_1", "stdio_1", "session_0", "stdio_0">>

\* An exception in the middle of the loop.
C20_WitnessMidLoop ==
    /\ mcp_pc = "raised"
    /\ mcp_exc = "react loop failed"
    /\ mcp_open = <<>>
    /\ Len(ScopesOf(mcp_log, "exit")) = Len(ScopesOf(mcp_log, "enter"))
    /\ LoopStarted


\* ------------------------------------------------------------ the order of the steps
\* The first attempt of the step call of the current iteration is about to be
\* made.
FirstAttempt == \A n \in CallsOf("react") : calls[n].idx # idx

\* C21: no model call is issued while a tool is being dispatched, and the
\* first step call of iteration i + 1 is issued after observation_i has been
\* recorded, with a trajectory that contains it.
C21_NoInterleaving ==
    [][/\ calls' # calls => pc \in {"step_call", "extract_call"}
       /\ (calls' # calls /\ pc = "step_call" /\ idx >= 1 /\ FirstAttempt) =>
             /\ Key("observation", idx - 1) \in written
             /\ Key("observation", idx - 1) \in KeySet(trajectory)
             /\ StepKeys(idx - 1) \subseteq KeySet(trajectory)
             /\ calls'[Len(calls')].idx = idx
             /\ calls'[Len(calls')].trajectory = FormatTrajectory(trajectory)
             /\ \A n \in CallsOf("react") : calls[n].idx < idx]_vars

\* The step call of iteration 1 has been made after a failed dispatch at
\* iteration 0.
C21_Witness ==
    /\ \E n \in CallsOf("react") : calls[n].idx = 1
    /\ \E f \in failed : f[1] = 0
    /\ Key("observation", 0) \in written

\* No call attempt overflowed or was rejected.
EveryCallReturned == \A n \in 1..Len(calls) : calls[n].outcome = "ok"

NeverFinish == \A n \in 1..Len(chosen) : chosen[n] # "finish"

\* In early-termination mode the loop runs at most max_iters iterations, and
\* a run whose model never chooses finish leaves the loop after iteration
\* max_iters - 1 for the extraction call.
C22_Cap ==
    strict_iters = None =>
        /\ Len(chosen) <= max_iters
        /\ \A n \in CallsOf("react") : calls[n].idx < max_iters
        /\ (NeverFinish /\ Len(chosen) = max_iters /\ pc # "dispatch") =>
               pc \in {"extract_call", "returned", "raised", "done"}
        /\ (NeverFinish /\ EveryCallReturned /\ pc = "done") =>
               /\ Len(chosen) = max_iters
               /\ Cardinality(CallsOf("extract")) = 1
               /\ error = ""
               /\ Len(result.trajectory) = KeysPerStep * max_iters

\* C22: in early-termination mode the loop runs at most max_iters iterations;
\* a run whose model never chooses finish and whose calls all return leaves
\* the loop after iteration max_iters - 1, makes the extraction call and
\* ends.
C22_CapBoundsRun ==
    /\ []C22_Cap
    /\ (strict_iters = None) ~> (pc = "done")

\* The model never chose finish: the run ended after max_iters iterations.
C22_Witness ==
    /\ pc = "done"
    /\ strict_iters = None
    /\ max_iters = MaxIters
    /\ NeverFinish
    /\ EveryCallReturned
    /\ Len(chosen) = MaxIters

\* C24: an overflow of the extraction call is handled as one of a step call:
\* the oldest step is removed and the extraction call is made again, until
\* it returns, or the trajectory is too short and the ValueError leaves
\* forward.
C24_ExtractionOverflowRecovery ==
    [][(OverflowStep /\ pc = "extract_call") =>
          /\ calls'[Len(calls')].module = "extract"
          /\ IF TooShort(trajectory)
             THEN /\ pc' = "raised"
                  /\ error' = TruncationError
                  /\ trajectory' = trajectory
             ELSE /\ pc' = "extract_call"
                  /\ error' = error
                  /\ truncs' = truncs + 1
                  /\ trajectory'
                       = SubSeq(trajectory, KeysPerStep + 1, Len(trajectory))]_vars

\* The extraction call overflowed, the oldest of two steps was removed and
\* the retry returned.
C24_Witness ==
    /\ pc = "returned"
    /\ Len(calls) >= 2
    /\ calls[Len(calls)].module = "extract"
    /\ calls[Len(calls) - 1].module = "extract"
    /\ calls[Len(calls) - 1].outcome = "overflow"
    /\ calls[Len(calls) - 1].keys = KeysPerStep + KeysPerStep
    /\ Keys(result.trajectory) = KeysOfSteps(1, 1)


\* ------------------------------------------------------------ the arguments
\* C23: when the argument of a BaseModel type does not parse, the function of
\* the tool is not called, nothing leaves the step, the observation is the
\* failure text of the validation error, and the loop goes on as after any
\* other failed dispatch.
C23_CoercionFailureRecorded ==
    [][(/\ pc = "dispatch"
        /\ pred.next_tool_name \in StructuredTools
        /\ pred.next_tool_args = UnparsableArgs) =>
           /\ invoked' = invoked
           /\ failed' = failed \cup {<<idx, ValidationError>>}
           /\ DictGet(trajectory', Key("observation", idx))
                = FailedObservation(ValidationError)
           /\ error' = error
           /\ pc' = LoopPc(idx + 1, strict_iters, max_iters)
           /\ pc' \in {"step_call", "extract_call"}]_vars

\* A run returned in which the argument of step 0 did not parse and step 1
\* called its tool.
C23_Witness ==
    /\ pc = "returned"
    /\ <<0, ValidationError>> \in failed
    /\ invoked = {1}
    /\ Len(result.trajectory) = KeysPerStep + KeysPerStep
    /\ DictGet(result.trajectory, Key("observation", 0))
         = FailedObservation(ValidationError)


\* ------------------------------------------------------------ the experiment numbers
\* The calls that have returned: a caller and the rank of the call.
ReturnedCalls ==
    {cn \in callers \X (1..MaxCalls) : cn[2] <= Len(returned_nums[cn[1]])}

\* C25: no two calls of get_next_experiment_number, of one caller or of
\* several, are returned the same number.
C25_NumbersAreUnique ==
    \A a, b \in ReturnedCalls :
        a # b => returned_nums[a[1]][a[2]] # returned_nums[b[1]][b[2]]

\* C26: a caller alone is returned the number the file holds, then the next
\* ones (1, 2, 3, ... when there was no file), and after the call that
\* returned n the file holds n + 1.
C26_ReturnsThenIncrements ==
    \A c \in callers :
        callers = {c} =>
            /\ \A n \in 1..Len(returned_nums[c]) :
                   returned_nums[c][n] = exp_start + n - 1
            /\ (exp_pc[c] = "idle" /\ returned_nums[c] # <<>>) =>
                   /\ exp_file_exists
                   /\ exp_file_text
                        = ToString(returned_nums[c][Len(returned_nums[c])] + 1)

\* A caller alone, no file at first: it was returned 1 and 2, the file
\* holds 3.
C26_Witness ==
    /\ callers = {"p"}
    /\ exp_start = 1
    /\ returned_nums["p"] = <<1, 2>>
    /\ exp_pc["p"] = "idle"
    /\ exp_file_text = "3"

\* The tasks processed so far whose agent returned a result with
\* completed = true.
AgentCompleted ==
    Cardinality({n \in 1..Len(task_outcomes) :
        /\ task_outcomes[n].result # NoResult
        /\ task_outcomes[n].result.completed})

\* C27: the summary's total_score is "completed/total", total being the
\* number of all tasks of the task file (a task whose processing raised
\* included) and completed the number of tasks whose agent result has
\* completed = true.
C27_TotalScore ==
    main_pc = "written" =>
        summary.total_score =
            ToString(AgentCompleted) \o "/" \o ToString(main_n)

\* The sum, over the tasks processed so far, of the values of one field that
\* are neither null nor non-positive.
RECURSIVE PositiveSum(_, _)
PositiveSum(outcomes, field) ==
    IF outcomes = <<>> THEN 0
    ELSE LET v == TaskValue(Head(outcomes).result, field)
         IN  (IF v = None \/ v <= 0 THEN 0 ELSE v)
             + PositiveSum(Tail(outcomes), field)

SummaryHas(field) == field \in DOMAIN summary

\* C30: a task's token and cost values are added to the run totals only
\* when they are non-null and positive; the summary carries input_tokens,
\* output_tokens and total_tokens (= input + output) exactly when one of the
\* two token totals is positive, and total_cost exactly when the cost total
\* is positive; otherwise the fields are absent, not zero.
C30_TotalsAndSummaryFields ==
    /\ input_tokens = PositiveSum(task_outcomes, "input_tokens")
    /\ output_tokens = PositiveSum(task_outcomes, "output_tokens")
    /\ total_cost = PositiveSum(task_outcomes, "cost")
    /\ main_pc = "written" =>
        /\ \A f \in {"input_tokens", "output_tokens", "total_tokens"} :
               SummaryHas(f) <=> (input_tokens > 0 \/ output_tokens > 0)
        /\ SummaryHas("input_tokens") =>
               /\ summary.input_tokens = input_tokens
               /\ summary.output_tokens = output_tokens
               /\ summary.total_tokens = input_tokens + output_tokens
        /\ SummaryHas("total_cost") <=> total_cost > 0
        /\ SummaryHas("total_cost") => summary.total_cost = total_cost

\* A summary with token fields but no cost field, written after a run in
\* which one task reported a negative input count, another a positive one,
\* and none reported output tokens.
C30_Witness ==
    /\ main_pc = "written"
    /\ SummaryHas("input_tokens")
    /\ summary.output_tokens = 0
    /\ ~SummaryHas("total_cost")
    /\ \E n \in 1..Len(task_outcomes) :
           TaskValue(task_outcomes[n].result, "input_tokens") < None
    /\ \E n \in 1..Len(task_outcomes) :
           TaskValue(task_outcomes[n].result, "cost") = None

\* The last action on env was name, on a path that did not exist.
OnAbsentPath(name) ==
    /\ fs_op.name = name
    /\ ~PathExists(fs_prev.dirs, fs_prev.files, fs_op.filepath)

\* The last action on env was name, on a regular file.
OnExistingFile(name) ==
    /\ fs_op.name = name
    /\ IsFile(fs_prev.files, fs_op.filepath)

EnvUnchanged == fs_dirs = fs_prev.dirs /\ fs_files = fs_prev.files

\* C28: delete on a path that does not exist returns false and changes
\* nothing in the environment; delete on an existing file returns true and
\* afterwards the file no longer exists.
C28_Delete ==
    /\ OnAbsentPath("delete_file") => fs_ret = "False" /\ EnvUnchanged
    /\ OnExistingFile("delete_file") =>
           /\ fs_ret = "True"
           /\ ~PathExists(fs_dirs, fs_files, fs_op.filepath)

\* The calls of ai the last action made.
NewAiCalls == Len(ai_calls) - fs_prev.ai_calls

BelowRegularFile ==
    \E q \in Ancestors(fs_op.filepath) : IsFile(fs_prev.files, q)

AtModelCall == pc \in {"step_call", "extract_call"}

\* The iterations recorded so far.
Recorded == Len(chosen)

\* The trajectory holds whole steps only, in order: those of the steps
\* lo..Recorded-1.
WholeStepsFrom(lo) == Keys(trajectory) = KeysOfSteps(lo, Recorded - 1)

\* C31: at every model call the trajectory holds whole steps only: its
\* number of keys is a multiple of four, every present step has its four
\* keys in the order thought, tool_name, tool_args, observation, and the
\* present indices form a contiguous range that ends at the last recorded
\* iteration; so the first four keys are those of the lowest step present.
C31_WholeStepsAtCalls ==
    AtModelCall =>
        /\ Len(trajectory) % KeysPerStep = 0
        /\ \E lo \in 0..Recorded : WholeStepsFrom(lo)
        /\ Recorded > 0 => (Recorded - 1) \in WholeStepsIn(trajectory)
        /\ Len(trajectory) >= KeysPerStep =>
              {Keys(trajectory)[n] : n \in 1..KeysPerStep}
                 = StepKeys(Lowest(StepsIn(trajectory)))

\* No overflow has met a trajectory of exactly one step.
NoOverflowOnOneStep ==
    \A n \in 1..Len(calls) :
        calls[n].outcome = "overflow" => calls[n].keys # KeysPerStep

\* C31 holds in the runs in which the guard of truncate_trajectory never
\* let the only step go.
C31_WholeStepsAtCalls_TwoSteps ==
    NoOverflowOnOneStep => C31_WholeStepsAtCalls

\* The steps overflow recovery has removed so far: it removes the lowest
\* step present each time, so they are the first truncs steps.
RemovedSteps == 0..(truncs - 1)

NoneRemovedIn(traj) ==
    \A j \in RemovedSteps : StepKeys(j) \cap KeySet(traj) = {}

\* The iterations recorded when call attempt n was issued: a step call is
\* issued at iteration idx with the steps below idx recorded, the extraction
\* call after the loop.
RecordedAt(n) ==
    IF calls[n].module = "react" THEN calls[n].idx ELSE Recorded

\* C32: truncation is permanent for the run: a step removed by overflow
\* recovery is in no trajectory passed to a later step call or to the
\* extraction call (a step that was missing from the trajectory of an
\* earlier call attempt is missing ever after), nor in the trajectory of
\* the result; and the trajectory
\* of the result is the one serialized into the extraction call that
\* returned.
C32_TruncationPermanent ==
    /\ AtModelCall => NoneRemovedIn(trajectory)
    /\ \A n \in 1..Len(calls) :
          \A j \in 0..(RecordedAt(n) - calls[n].keys \div KeysPerStep - 1) :
             StepKeys(j) \cap KeySet(trajectory) = {}
    /\ pc = "returned" =>
          /\ NoneRemovedIn(result.trajectory)
          /\ result.trajectory = trajectory
          /\ calls[Len(calls)].module = "extract"
          /\ calls[Len(calls)].outcome = "ok"
          /\ calls[Len(calls)].trajectory
                = FormatTrajectory(result.trajectory)

\* forward returned after a step call lost a step to overflow recovery while
\* another step stayed, and at least one step is in the result.
C32_Witness ==
    /\ pc = "returned"
    /\ truncs >= 1
    /\ \E n \in 1..Len(calls) :
          /\ calls[n].module = "react"
          /\ calls[n].outcome = "overflow"
          /\ calls[n].keys >= 2 * KeysPerStep
    /\ Len(result.trajectory) >= KeysPerStep

\* The call attempts so far with one outcome.
AttemptsWith(outcome) ==
    Cardinality({n \in 1..Len(calls) : calls[n].outcome = outcome})

\* The iteration budget N of the run.
Budget == num_iters(strict_iters, max_iters)

\* C33: the truncations done by overflow recovery never exceed the steps
\* recorded so far, and the model call attempts of a run with iteration
\* budget N are at most 2N + 2: at most N step calls that return, one
\* extraction call that returns, N overflows followed by a truncation, and
\* one last attempt that fails.
C33_AttemptsBounded ==
    /\ truncs <= Recorded
    /\ Recorded <= Budget
    /\ Cardinality(ReturnedCallsOf("react")) <= Budget
    /\ Cardinality(ReturnedCallsOf("extract")) <= 1
    /\ AttemptsWith("overflow") <= truncs + 1
    /\ AttemptsWith("overflow") + AttemptsWith("rejected")
          + AttemptsWith("failed") <= Budget + 1
    /\ Len(calls) <= 2 * Budget + 2

\* A run of budget two or more in which every recorded step was truncated
\* away and the attempts number 2N + 1.
C33_Witness ==
    /\ Budget >= 2
    /\ Recorded = Budget
    /\ truncs = Recorded
    /\ Len(calls) = 2 * Budget + 1

\* The call attempts that raised an exception other than the overflow.
OtherFailures ==
    {n \in 1..Len(calls) : calls[n].outcome \in {"rejected", "failed"}}

\* What holds once a call attempt has raised an exception other than the
\* overflow: it is the last attempt of the run, the trajectory is the one
\* the attempt was made with, the exception has left forward, which returned
\* nothing, and the result of the agent, once there, has completed false.
C34_NotRetried ==
    \A n \in OtherFailures :
        /\ n = Len(calls)
        /\ Len(trajectory) = calls[n].keys
        /\ FormatTrajectory(trajectory) = calls[n].trajectory
        /\ truncs = AttemptsWith("overflow")
        /\ pc \in {"raised", "done"}
        /\ error \notin {"", TruncationError}
        /\ result = <<>>
        /\ pc = "done" =>
              /\ agent_result.completed = FALSE
              /\ agent_result.result = "Error: " \o error

\* C34: only the context overflow is retried: any other exception raised by
\* a step call or by the extraction call is not retried, leaves the
\* trajectory untouched by truncation, propagates out of forward, and ends
\* the run as a result with completed false.
C34_OnlyOverflowRetried ==
    /\ []C34_NotRetried
    /\ (OtherFailures # {}) ~> (pc = "done" /\ agent_result.completed = FALSE)

\* The extraction call raised another exception after a step call had been
\* through overflow recovery, and the run ended with the error result.
C34_Witness ==
    /\ pc = "done"
    /\ calls[Len(calls)].module = "extract"
    /\ calls[Len(calls)].outcome = "failed"
    /\ truncs >= 1
    /\ Len(trajectory) >= KeysPerStep
    /\ agent_result.completed = FALSE

\* A step call raised another exception with steps in the trajectory.
C34_WitnessStep ==
    /\ pc = "done"
    /\ calls[Len(calls)].module = "react"
    /\ calls[Len(calls)].outcome = "failed"
    /\ Len(trajectory) >= KeysPerStep

\* The tasks are processed one after the other in file order, none skipped,
\* whatever raised, and the summary is written only after the last one.
C35_InFileOrder ==
    /\ main_pc \in {"tasks", "written"}
    /\ Len(task_outcomes) = main_i - 1
    /\ \A n \in 1..Len(task_outcomes) : task_outcomes[n].i = n
    /\ \A n \in 1..Len(task_logs) :
          /\ task_logs[n].task_id \in 1..main_n
          /\ n > 1 => task_logs[n - 1].task_id < task_logs[n].task_id
    /\ main_pc = "written" => Len(task_outcomes) = main_n

\* C35: once the task file is loaded as a list, an exception while
\* processing one task does not stop the run: every later task is still
\* processed, in file order, and summary.json is written once, at the end.
C35_RunGoesOn ==
    /\ []C35_InFileOrder
    /\ [][main_pc = "written" => main_pc' = "written" /\ summary' = summary]_vars
    /\ (main_pc = "tasks") ~> (main_pc = "written")

\* The summary is written after a run whose first task raised before the
\* agent returned and whose second task was logged.
C35_Witness ==
    /\ main_pc = "written"
    /\ main_n >= 2
    /\ task_outcomes[1].raised
    /\ task_outcomes[1].result = NoResult
    /\ ~task_outcomes[2].raised
    /\ task_logs[1].task_id = 2

\* The env folder itself, as a path below env.
EnvRoot == <<>>

\* C36: delete_file never removes the environment root directory: after any
\* sequence of create and delete operations on paths relative to env, the
\* env directory still exists.
C36_EnvRootKept == EnvRoot \in fs_dirs

\* The processing of the task is over and no failure of the agent is the
\* reason.
TaskOver == cli_pc = "over" /\ cli_outcome # "agent raised"

\* C37: when the task is created with --eval, with or without --env, the
\* script copied for the task is the one main_execution later looks up and
\* runs as the task-specific evaluation of the task.
C37_CopiedScriptIsRun ==
    (TaskOver /\ copied # NoCopy) =>
        /\ looked_up = copied.dir
        /\ eval_run = copied.script

====
